---- MODULE Spec2Model ----
(***************************************************************************)
(* A model of the game-client repository: the repository scanner and its   *)
(* version resolver (src/repository/smb.rs, src/repository/game_info.rs),  *)
(* the metadata cache (src/metadata/cache.rs), the metadata handler        *)
(* (src/metadata/handler.rs) and the refresh tasks the application spawns  *)
(* on clones of the handler (src/ui/app.rs).                               *)
(*                                                                         *)
(* Strings are sequences of one-character strings, so that the regular     *)
(* expressions of the code are matched character by character.  The        *)
(* alphabet is ASCII without line breaks.                                  *)
(***************************************************************************)
EXTENDS Integers, Sequences, FiniteSets, TLC

VARIABLES
    using_local_fallback,   \* SmbConnection.using_local_fallback
    local_path,             \* SmbConnection.local_path: "None" or "Some"
    local_dir,              \* the game directory of the local repository: name and files
    game,                   \* the GameInfo last produced by the scanner
    now,                    \* the wall clock, seconds since the epoch
    metadata,               \* MetadataCache.metadata: game id -> CachedMetadata
    disk,                   \* the files <cache_dir>/metadata/*.json: path -> content
    ret,                    \* what the last cache operation returned
    covers,                 \* the files <cache_dir>/images/<id>_cover.jpg: the ids that have one
    last_refresh,           \* MetadataHandler.last_refresh: the game ids that have an entry
    events,                 \* the statuses the last call of the handler sent
    hret,                   \* what the last call of the handler returned
    batch,                  \* update_library_metadata: the list, the position, the counters
    progress_tx,            \* MetadataHandler.progress_tx and the receiving end of the channel
    spawned,                \* the refresh tasks the application spawned on clones of the handler
    app,                    \* GameLibraryApp: its flags, refresh states, status channel and tasks
    first_pass,             \* the first pass of parse_versions on one installer: its local `build`
    parsed                  \* the info text parse_metadata last read, and the GameInfo it left

scanVars == <<using_local_fallback, local_path, local_dir, game, first_pass, parsed>>
cacheVars == <<now, metadata, disk, ret>>
handlerVars == <<covers, last_refresh, events, hret, batch, progress_tx, spawned, app>>
vars == <<using_local_fallback, local_path, local_dir, game, now, metadata, disk, ret,
         covers, last_refresh, events, hret, batch, progress_tx, spawned, app, first_pass,
         parsed>>

----------------------------------------------------------------------------
(* Characters and strings                                                  *)

Digits == <<"0", "1", "2", "3", "4", "5", "6", "7", "8", "9">>
LowerLetters == <<"a", "b", "c", "d", "e", "f", "g", "h", "i", "j", "k", "l", "m",
                  "n", "o", "p", "q", "r", "s", "t", "u", "v", "w", "x", "y", "z">>
UpperLetters == <<"A", "B", "C", "D", "E", "F", "G", "H", "I", "J", "K", "L", "M",
                  "N", "O", "P", "Q", "R", "S", "T", "U", "V", "W", "X", "Y", "Z">>

Range(f) == {f[i] : i \in DOMAIN f}
LowerSet == Range(LowerLetters)

IndexOf(seq, c) == CHOOSE i \in DOMAIN seq : seq[i] = c

\* char::to_digit(10) of the decimal digits
DigitValues == [c \in Range(Digits) |-> IndexOf(Digits, c) - 1]
DigitVal(c) == DigitValues[c]

\* the character classes \d and [a-z] of the regexes
IsDigit(c) == c \in DOMAIN DigitValues
IsLower(c) == c \in LowerSet

\* char::to_lowercase on the alphabet of the model
LowerOfUpper == [c \in Range(UpperLetters) |-> LowerLetters[IndexOf(UpperLetters, c)]]
LowerChar(c) == IF c \in DOMAIN LowerOfUpper THEN LowerOfUpper[c] ELSE c

\* str::to_lowercase
RECURSIVE to_lowercase(_)
to_lowercase(s) == IF s = <<>> THEN <<>> ELSE <<LowerChar(Head(s))>> \o to_lowercase(Tail(s))

\* the literal lit occurs in s at position i
At(s, i, lit) ==
    /\ i >= 1
    /\ i + Len(lit) - 1 <= Len(s)
    /\ \A k \in 1..Len(lit) : s[i + k - 1] = lit[k]

DigitAt(s, i) == i >= 1 /\ i <= Len(s) /\ IsDigit(s[i])
LowerAt(s, i) == i >= 1 /\ i <= Len(s) /\ IsLower(s[i])

\* str::contains for one character
contains(s, c) == \E i \in DOMAIN s : s[i] = c

\* str::ends_with
ends_with(s, suffix) == Len(s) >= Len(suffix) /\ At(s, Len(s) - Len(suffix) + 1, suffix)

\* Option<T>
None == <<>>
Some(x) == <<x>>

\* the position after the longest run of digits that starts at i (i itself if none)
RECURSIVE DigitsEnd(_, _)
DigitsEnd(s, i) == IF DigitAt(s, i) THEN DigitsEnd(s, i + 1) ELSE i

\* the least element of a non-empty set of integers
Min(S) == CHOOSE x \in S : \A y \in S : x <= y

\* the value of a string of digits
RECURSIVE DecimalValue(_)
DecimalValue(s) ==
    IF s = <<>> THEN 0
    ELSE 10 * DecimalValue(SubSeq(s, 1, Len(s) - 1)) + DigitVal(s[Len(s)])

\* u32::MAX, digit by digit
U32MaxDigits == <<"4", "2", "9", "4", "9", "6", "7", "2", "9", "5">>

RECURSIVE StripZeros(_)
StripZeros(s) == IF Len(s) > 1 /\ s[1] = "0" THEN StripZeros(Tail(s)) ELSE s

\* a <= b for two digit strings of the same length
RECURSIVE DigitsLeq(_, _)
DigitsLeq(a, b) ==
    IF a = <<>> THEN TRUE
    ELSE IF DigitVal(a[1]) # DigitVal(b[1]) THEN DigitVal(a[1]) < DigitVal(b[1])
    ELSE DigitsLeq(Tail(a), Tail(b))

\* the number a digit string denotes fits in a u32
FitsU32(s) ==
    LET t == StripZeros(s) IN
    Len(t) < Len(U32MaxDigits) \/ (Len(t) = Len(U32MaxDigits) /\ DigitsLeq(t, U32MaxDigits))

\* str::parse::<u32>() on the strings the regexes capture: -1 stands for Err
NoParse == 0 - 1
parse_u32(s) ==
    IF s # <<>> /\ (\A i \in DOMAIN s : IsDigit(s[i])) /\ FitsU32(s)
    THEN DecimalValue(s)
    ELSE NoParse

\* the words the code spells out
Word ==
    [build |-> <<"b", "u", "i", "l", "d">>,
     build_ |-> <<"b", "u", "i", "l", "d", "_">>,
     v |-> <<"v">>,
     to |-> <<"t", "o">>,
     patch |-> <<"p", "a", "t", "c", "h">>,
     update |-> <<"u", "p", "d", "a", "t", "e">>,
     setup |-> <<"s", "e", "t", "u", "p">>,
     install |-> <<"i", "n", "s", "t", "a", "l", "l">>,
     launcher |-> <<"l", "a", "u", "n", "c", "h", "e", "r">>,
     exe |-> <<".", "e", "x", "e">>,
     msi |-> <<".", "m", "s", "i">>,
     pkg |-> <<".", "p", "k", "g">>,
     dmg |-> <<".", "d", "m", "g">>,
     zip |-> <<".", "z", "i", "p">>]

----------------------------------------------------------------------------
(* The file names of the model                                             *)

MaxFiles == 3

\* the file names a game directory may hold: installers that carry a build
\* identifier (one in upper case, one with a letter suffix), a dotted version after
\* "v" or on its own, or no version; an executable and an msi package that match
\* no pattern; a name that matches the installer and the patch pattern; patches
\* with a from/to pair (one from an identifier with a letter suffix) and without;
\* a text file
FileNames ==
    {Word.setup \o <<"_">> \o Word.build_ \o <<"1", "0", "0">> \o Word.exe,
     <<"S", "e", "t", "u", "p", "_", "B", "u", "i", "l", "d", "_", "2", "0", "0", ".", "E", "X", "E">>,
     Word.setup \o <<"_">> \o Word.build_ \o <<"1", "0", "0", "a">> \o Word.exe,
     <<"v", "1", ".", "2", ".", "3", "_">> \o Word.setup \o Word.exe,
     Word.setup \o <<"_", "1", ".", "3">> \o Word.exe,
     Word.setup \o Word.exe,
     <<"g", "a", "m", "e">> \o Word.exe,
     <<"g", "a", "m", "e">> \o Word.msi,
     Word.install \o <<"_">> \o Word.patch \o Word.exe,
     Word.patch \o <<"_">> \o Word.build_ \o <<"1", "0", "0", "_">> \o Word.to \o <<"_">> \o Word.build_
        \o <<"2", "0", "0">> \o Word.exe,
     Word.patch \o <<"_">> \o Word.build_ \o <<"1", "0", "0", "a", "_">> \o Word.to \o <<"_">> \o Word.build_
        \o <<"2", "0", "0">> \o Word.zip,
     Word.update \o Word.zip,
     <<"r", "e", "a", "d", "m", "e", ".", "t", "x", "t">>}

\* the game directories of the repository
DirNames == {<<"g">>, <<"d", "_", "2">>}

\* the game directory of the local repository
LocalDirName == <<"g">>

\* format!("setup_{}_gog_build_2241b_(64bit)_(51706).exe", dir_name)
DemoInstallerName(dir_name) ==
    Word.setup \o <<"_">> \o dir_name \o <<"_">> \o <<"g", "o", "g">> \o <<"_">> \o Word.build_ \o <<"2", "2", "4", "1", "b">> \o <<"_">>
        \o <<"(", "6", "4", "b", "i", "t", ")">> \o <<"_">> \o <<"(", "5", "1", "7", "0", "6", ")">> \o Word.exe

\* format!("patch_{}_GOG_Build_2055a_(37083)_to_GOG_Build_2172_(47150).exe", dir_name)
DemoPatchName(dir_name) ==
    Word.patch \o <<"_">> \o dir_name \o <<"_">> \o <<"G", "O", "G">> \o <<"_">> \o <<"B", "u", "i", "l", "d", "_">>
        \o <<"2", "0", "5", "5", "a">> \o <<"_">> \o <<"(", "3", "7", "0", "8", "3", ")">> \o <<"_">> \o Word.to \o <<"_">>
        \o <<"G", "O", "G">> \o <<"_">> \o <<"B", "u", "i", "l", "d", "_">> \o <<"2", "1", "7", "2">> \o <<"_">>
        \o <<"(", "4", "7", "1", "5", "0", ")">> \o Word.exe

\* every file name the scanner can meet
AllNames == FileNames \cup {DemoInstallerName(d) : d \in DirNames} \cup {DemoPatchName(d) : d \in DirNames}

----------------------------------------------------------------------------
(* File classification: SmbConnection::get_game_info, lines 266-295        *)

Installer == "Installer"
Patch == "Patch"
Other == "Other"

\* a regex of the shape (?i)(w1|w2|...).*\.(e1|e2|...)$ : one of the words occurs,
\* and the name ends with one of the extensions, which starts after the word
WordThenExtension(file_name, words, exts) ==
    LET s == to_lowercase(file_name) IN
    \E w \in words : \E e \in exts : \E i \in 1..Len(s) :
        /\ At(s, i, w)
        /\ ends_with(s, e)
        /\ Len(s) - Len(e) + 1 >= i + Len(w)

\* Regex::new(r"(?i)(setup|install|launcher).*\.(exe|msi|pkg|dmg)$")
installer_regex(file_name) ==
    WordThenExtension(file_name, {Word.setup, Word.install, Word.launcher}, {Word.exe, Word.msi, Word.pkg, Word.dmg})

\* Regex::new(r"(?i)(patch|update).*\.(exe|msi|pkg|dmg|zip)$")
patch_regex(file_name) ==
    WordThenExtension(file_name, {Word.patch, Word.update}, {Word.exe, Word.msi, Word.pkg, Word.dmg, Word.zip})

\* file_name.to_lowercase().ends_with(".exe")
ExeFallback(file_name) == ends_with(to_lowercase(file_name), Word.exe)

\* the if / else-if chain that determines the file type
classify(file_name) ==
    IF installer_regex(file_name) THEN Installer
    ELSE IF patch_regex(file_name) THEN Patch
    ELSE IF ExeFallback(file_name) THEN Installer
    ELSE Other

\* classify, tabulated for the file names of the model
file_types == [n \in AllNames |-> classify(n)]

----------------------------------------------------------------------------
(* The version patterns of GameInfo::parse_versions, lines 154-161.        *)
(* A pattern applied to a name gives the text of capture group 1 and of    *)
(* capture group 2 of the leftmost match; NoMatch when there is none and   *)
(* NoGroup for a group that took no part in the match.  A position 0       *)
(* stands for "does not match here".                                       *)

NoGroup == <<"?">>
NoMatch == [matched |-> FALSE, g1 |-> NoGroup, g2 |-> NoGroup]
Captures(a, b) == [matched |-> TRUE, g1 |-> a, g2 |-> b]

\* c? at position i: the position after it
OptChar(s, i, c) == IF At(s, i, <<c>>) THEN i + 1 ELSE i
\* [a-z]? at position i: the position after it
OptLower(s, i) == IF LowerAt(s, i) THEN i + 1 ELSE i
\* \d+ at position i: the position after it, greedy
Digits1(s, i) == IF DigitAt(s, i) THEN DigitsEnd(s, i) ELSE 0
\* the text from a up to b, NoGroup when it is empty
GroupText(s, a, b) == IF b > a THEN SubSeq(s, a, b - 1) ELSE NoGroup

\* (\d+[a-z]?) at position i: the position after it
BuildIdEnd(s, i) == OptLower(s, DigitsEnd(s, i))
\* _?\(?(\d+)? after the identifier that ends before e: the text of group 2
BuildGroup2At(s, p) == GroupText(s, p, DigitsEnd(s, p))
BuildGroup2(s, e) == BuildGroup2At(s, OptChar(s, OptChar(s, e, "_"), "("))

\* build_(\d+[a-z]?)_?\(?(\d+)?\)?  matched at position i
BuildPatternAt(s, i) ==
    IF At(s, i, Word.build_) /\ DigitAt(s, i + 6)
    THEN Captures(SubSeq(s, i + 6, BuildIdEnd(s, i + 6) - 1), BuildGroup2(s, BuildIdEnd(s, i + 6)))
    ELSE NoMatch

\* \.\d+ at position i: the position after it
DotDigits(s, i) == IF i # 0 /\ At(s, i, <<".">>) THEN Digits1(s, i + 1) ELSE 0
\* \d+\.\d+ at position b: the position after it
DottedEnd(s, b) == DotDigits(s, Digits1(s, b))
\* the captures of \d+\.\d+(\.\d+)? at b, e being the end of \d+\.\d+ and e3 the
\* end of the optional third component
DottedCaptures(s, b, e, e3) ==
    IF e = 0 THEN NoMatch
    ELSE IF e3 # 0 THEN Captures(SubSeq(s, b, e3 - 1), SubSeq(s, e, e3 - 1))
    ELSE Captures(SubSeq(s, b, e - 1), NoGroup)
DottedFrom(s, b, e) == DottedCaptures(s, b, e, DotDigits(s, e))

\* v(\d+\.\d+(\.\d+)?) when prefix = "v", (\d+\.\d+(\.\d+)?) when prefix is empty,
\* matched at position i
DottedPatternAt(s, i, prefix) ==
    IF At(s, i, prefix)
    THEN DottedFrom(s, i + Len(prefix), DottedEnd(s, i + Len(prefix)))
    ELSE NoMatch

\* version_patterns[k - 1] matched at position i, k = 1, 2, 3 in the order of
\* the array
PatternAt(k, s, i) ==
    IF k = 1 THEN BuildPatternAt(s, i)
    ELSE IF k = 2 THEN DottedPatternAt(s, i, Word.v)
    ELSE DottedPatternAt(s, i, <<>>)

\* Regex::captures: the match that starts leftmost
FirstMatch(k, s, starts) == IF starts = {} THEN NoMatch ELSE PatternAt(k, s, Min(starts))

\* version_patterns[k - 1].captures(file_name)
version_patterns(k, s) == FirstMatch(k, s, {i \in 1..Len(s) : PatternAt(k, s, i).matched})

----------------------------------------------------------------------------
(* The patch pattern of GameInfo::parse_versions, line 251:                *)
(* (?:patch|update).*?(?:build|v)_?(\d+[a-z]?)(?:_|\s|-).*?(?:to|-)        *)
(*                 .*?(?:build|v)_?(\d+[a-z]?)                             *)

\* (?:build|v)_? matched at p: the position after it
BuildOrVEnd(s, p) ==
    IF At(s, p, Word.build) THEN OptChar(s, p + 5, "_")
    ELSE IF At(s, p, Word.v) THEN OptChar(s, p + 1, "_")
    ELSE 0

NoFrom == [ok |-> FALSE, from |-> NoGroup, next |-> 0]
\* (?:_|\s|-) at e, after the from-identifier that starts at b
FromSep(s, b, e) ==
    IF e <= Len(s) /\ s[e] \in {"_", "-", " "}
    THEN [ok |-> TRUE, from |-> SubSeq(s, b, e - 1), next |-> e + 1]
    ELSE NoFrom
\* (\d+[a-z]?)(?:_|\s|-) at b
FromId(s, b) == IF DigitAt(s, b) THEN FromSep(s, b, BuildIdEnd(s, b)) ELSE NoFrom
\* (?:build|v)_?(\d+[a-z]?)(?:_|\s|-) matched at p: the from-identifier and the
\* position after the separator
FromAt(s, p) == FromId(s, BuildOrVEnd(s, p))

\* (?:to|-) matched at q: the position after it
ToEnd(s, q) == IF At(s, q, Word.to) THEN q + 2 ELSE IF At(s, q, <<"-">>) THEN q + 1 ELSE 0
\* .*?(?:build|v)_?(\d+[a-z]?) matches somewhere from position q2 on
ToIdAfter(s, q2) == q2 # 0 /\ \E r \in q2..Len(s) : DigitAt(s, BuildOrVEnd(s, r))
\* .*?(?:to|-).*?(?:build|v)_?(\d+[a-z]?) matches somewhere from position k on
ToAfter(s, k) == \E q \in k..Len(s) : ToIdAfter(s, ToEnd(s, q))

\* the positions p >= k at which the from-part matches and the to-part follows
FromThenTo(s, f) == f.ok /\ ToAfter(s, f.next)
FromStarts(s, k) == {p \in k..Len(s) : FromThenTo(s, FromAt(s, p))}

\* (?:patch|update) matched at i: the position after it
PatchWordEnd(s, i) ==
    IF At(s, i, Word.patch) THEN i + 5 ELSE IF At(s, i, Word.update) THEN i + 6 ELSE 0

\* the rest of the pattern matches after the word that ends before e
RestMatches(s, e) == e # 0 /\ FromStarts(s, e) # {}
\* the lazy .*? takes the first from-part that lets the rest match
FirstFrom(s, e) == FromAt(s, Min(FromStarts(s, e))).from
FromToAt(s, starts) ==
    IF starts = {} THEN NoMatch ELSE Captures(FirstFrom(s, PatchWordEnd(s, Min(starts))), NoGroup)

\* from_to_regex.captures(patch_name): the leftmost match; g1 is the from-identifier
from_to_regex(s) == FromToAt(s, {i \in 1..Len(s) : RestMatches(s, PatchWordEnd(s, i))})

----------------------------------------------------------------------------
(* GameInfo::parse_versions                                                *)

S_Build == <<"B", "u", "i", "l", "d", " ">>
S_Version == <<"V", "e", "r", "s", "i", "o", "n", " ">>
DefaultVersionName == <<"D", "e", "f", "a", "u", "l", "t", " ", "V", "e", "r", "s", "i", "o", "n">>

\* str::split('.')
RECURSIVE split_dot(_)
split_dot(s) ==
    IF ~contains(s, ".") THEN <<s>>
    ELSE <<SubSeq(s, 1, Min({k \in DOMAIN s : s[k] = "."}) - 1)>>
            \o split_dot(SubSeq(s, Min({k \in DOMAIN s : s[k] = "."}) + 1, Len(s)))

\* 10u32.pow(k)
RECURSIVE Pow10(_)
Pow10(k) == IF k <= 0 THEN 1 ELSE 10 * Pow10(k - 1)

\* lines 179-186: build_num += num * 10u32.pow(6 - (i as u32 * 2)) for every part
\* that parses, i counting the parts from 0
RECURSIVE build_num(_, _)
build_num(parts, i) ==
    IF parts = <<>> THEN 0
    ELSE (IF parse_u32(Head(parts)) = NoParse THEN 0
          ELSE parse_u32(Head(parts)) * Pow10(6 - i * 2))
         + build_num(Tail(parts), i + 1)

\* Nothing reads the local `build` of lines 176-194: the build number of a version
\* is derived from its name, lines 223-233.

\* lines 171-211: the captures of the first pattern of the array that matches
OrElsePattern(captures, others) == IF captures.matched THEN captures ELSE others
first_captures(file_name) ==
    OrElsePattern(version_patterns(1, file_name),
        OrElsePattern(version_patterns(2, file_name), version_patterns(3, file_name)))

\* lines 196-218: the key of version_map for these captures
VersionNameFor(captures) ==
    IF ~captures.matched THEN DefaultVersionName
    ELSE IF contains(captures.g1, ".") THEN S_Version \o captures.g1
    ELSE S_Build \o captures.g1

\* lines 167-218: the key under which the first pass files an installer
VersionNameOf(file) == VersionNameFor(first_captures(to_lowercase(file.name)))

\* VersionNameOf, tabulated for the file names of the model
version_names == [n \in AllNames |-> VersionNameOf([name |-> n])]

\* Regex::new(r"(\d+)") on a version name, then parse::<u32>().unwrap_or(1)
UnwrapOr(n, default) == IF n = NoParse THEN default ELSE n
FirstNumber(name, starts) ==
    IF starts = {} THEN NoParse
    ELSE parse_u32(SubSeq(name, Min(starts), DigitsEnd(name, Min(starts)) - 1))
NumRegexBuild(name) == UnwrapOr(FirstNumber(name, {i \in DOMAIN name : IsDigit(name[i])}), 1)

\* lines 223-233: the build number a version gets, derived from its name alone
BuildOfName(name) == IF name = DefaultVersionName THEN 1 ELSE NumRegexBuild(name)

\* a filter that knows installers by the lower-case extension of their name
installer_files_by_extension(files) == SelectSeq(files, LAMBDA f : ends_with(f.name, Word.exe))
\* lines 141-143
installer_files(files) == SelectSeq(files, LAMBDA f : f.file_type = Installer)
\* lines 146-148
patch_files(files) == SelectSeq(files, LAMBDA f : f.file_type = Patch)

\* the elements of seq whose key, at the same index of keys, is key
RECURSIVE KeepWhere(_, _, _)
KeepWhere(seq, keys, key) ==
    IF seq = <<>> THEN <<>>
    ELSE (IF Head(keys) = key THEN <<Head(seq)>> ELSE <<>>) \o KeepWhere(Tail(seq), Tail(keys), key)

\* version_map.entry(version_name).or_insert_with(Vec::new).push(file), for every
\* installer in turn: each key holds its files in the order of the list
GroupByName(installers, names) ==
    [name \in Range(names) |-> KeepWhere(installers, names, name)]

\* a first pass that files every installer under every key
version_map_every_key(installers) ==
    [name \in {version_names[installers[i].name] : i \in DOMAIN installers} |-> installers]

\* lines 164-219: version_map after the first pass
version_map(installers) ==
    GroupByName(installers, [i \in DOMAIN installers |-> version_names[installers[i].name]])

\* from_to_regex.captures(&patch_name), tabulated for the file names of the model
from_to_captures == [n \in AllNames |-> from_to_regex(to_lowercase(n))]

\* lines 253-271: whether the second pass pushes a patch with these captures onto
\* a version of this build number
Attaches(captures, build) ==
    IF captures.matched
    THEN build = UnwrapOr(parse_u32(captures.g1), 0)     \* from_build
    ELSE TRUE
\* a second pass without the else branch of lines 267-270
PatchGoesToFromBuildOnly(patch, version) ==
    /\ from_to_captures[patch.name].matched
    /\ Attaches(from_to_captures[patch.name], version.build)
PatchGoesTo(patch, version) == Attaches(from_to_captures[patch.name], version.build)

\* lines 246-273: the second pass, for one version: the patches pushed onto it,
\* in the order of patch_files
WithPatches(version, patches) ==
    [version EXCEPT !.required_patches = SelectSeq(patches, LAMBDA p : PatchGoesTo(p, version))]

\* lines 222-243: the version made of one entry of version_map
NewVersion(name, files) ==
    [name |-> name, build |-> BuildOfName(name), files |-> files, required_patches |-> <<>>]

\* lines 222-273: the versions in the order in which the map is iterated
CreateVersions(map, order, patches) ==
    [i \in DOMAIN order |-> WithPatches(NewVersion(order[i], map[order[i]]), patches)]

\* lines 276-287: a default version when there is none although installers exist
OrDefaultVersion(versions, installers) ==
    IF versions = <<>> /\ installers # <<>>
    THEN <<[name |-> DefaultVersionName, build |-> 1, files |-> installers, required_patches |-> <<>>]>>
    ELSE versions

\* a slice::sort_by with |a, b| b.build.cmp(&a.build): stable, descending
RECURSIVE InsertDesc(_, _)
InsertDesc(sorted, v) ==
    IF sorted = <<>> THEN <<v>>
    ELSE IF sorted[Len(sorted)].build >= v.build THEN Append(sorted, v)
    ELSE Append(InsertDesc(SubSeq(sorted, 1, Len(sorted) - 1), v), sorted[Len(sorted)])

RECURSIVE SortDescFrom(_, _)
SortDescFrom(sorted, rest) ==
    IF rest = <<>> THEN sorted ELSE SortDescFrom(InsertDesc(sorted, Head(rest)), Tail(rest))

\* the versions left in the order of the map
NoSort(versions) == versions
\* lines 289-292
sort_by_build_desc(versions) == SortDescFrom(<<>>, versions)

\* the orders in which `for (name, files) in version_map` may visit the keys
IterationOrders(keys) ==
    {o \in [1..Cardinality(keys) -> keys] : \A i, j \in DOMAIN o : i # j => o[i] # o[j]}

\* parse_versions: the value it assigns to self.versions, for one iteration order
\* of the HashMap
parse_versions(files, order) ==
    sort_by_build_desc(
        OrDefaultVersion(
            CreateVersions(version_map(installer_files(files)), order, patch_files(files)),
            installer_files(files)))

\* the iteration orders of the version_map of these files
MapOrders(files) == IterationOrders(DOMAIN version_map(installer_files(files)))

----------------------------------------------------------------------------
(* The repository scanner: SmbConnection                                   *)

\* what WalkDir yields for a game directory: its files, in the order of the walk
\* (two entries may carry the same name in different sub-directories)
Listings == UNION {[1..n -> FileNames] : n \in 0..MaxFiles}

\* lines 272-311: one GameFile per entry of the walk
ScanFiles(dir_name, listing) ==
    [k \in DOMAIN listing |->
        [name |-> listing[k], remote_path |-> <<dir_name, k>>, file_type |-> file_types[listing[k]]]]

\* SmbConnection::add_demo_files: the files it pushes
add_demo_files(dir_name) ==
    << [name |-> DemoInstallerName(dir_name),
        remote_path |-> <<dir_name, DemoInstallerName(dir_name)>>, file_type |-> Installer],
       [name |-> DemoPatchName(dir_name),
        remote_path |-> <<dir_name, DemoPatchName(dir_name)>>, file_type |-> Patch] >>

----------------------------------------------------------------------------
(* The info text of a game directory: GameInfo::parse_metadata             *)

\* the fields of GameInfo that the info text may set, as GameInfo::default()
\* has them
DefaultInfo ==
    [title |-> <<>>, developer |-> None, publisher |-> None, release_date |-> None,
     description |-> None, igdb_id |-> None]

\* str::trim
RECURSIVE trim_start(_)
trim_start(s) ==
    IF s # <<>> /\ Head(s) \in {" ", "\t"} THEN trim_start(Tail(s)) ELSE s
RECURSIVE trim_end(_)
trim_end(s) ==
    IF s # <<>> /\ s[Len(s)] \in {" ", "\t"} THEN trim_end(SubSeq(s, 1, Len(s) - 1)) ELSE s
trim(s) == trim_end(trim_start(s))

\* lines 124-129: the keys of each field
MetadataKeys ==
    [title |-> {<<"t", "i", "t", "l", "e">>, <<"n", "a", "m", "e">>, <<"g", "a", "m", "e">>, <<"g", "a", "m", "e", " ", "n", "a", "m", "e">>},
     developer |-> {<<"d", "e", "v", "e", "l", "o", "p", "e", "r">>, <<"d", "e", "v">>},
     publisher |-> {<<"p", "u", "b", "l", "i", "s", "h", "e", "r">>, <<"p", "u", "b">>},
     release_date |-> {<<"r", "e", "l", "e", "a", "s", "e">>, <<"r", "e", "l", "e", "a", "s", "e", " ", "d", "a", "t", "e">>, <<"d", "a", "t", "e">>},
     description |-> {<<"d", "e", "s", "c", "r", "i", "p", "t", "i", "o", "n">>, <<"d", "e", "s", "c">>, <<"a", "b", "o", "u", "t">>},
     igdb_id |-> {<<"i", "g", "d", "b">>, <<"i", "g", "d", "b", "_", "i", "d">>, <<"i", "g", "d", "b", " ", "i", "d">>}]

\* GameInfo::set_metadata_value; the igdb id is value.parse::<u32>().ok()
set_metadata_value(self, key, value) ==
    IF key \in MetadataKeys.title THEN [self EXCEPT !.title = value]
    ELSE IF key \in MetadataKeys.developer THEN [self EXCEPT !.developer = Some(value)]
    ELSE IF key \in MetadataKeys.publisher THEN [self EXCEPT !.publisher = Some(value)]
    ELSE IF key \in MetadataKeys.release_date THEN [self EXCEPT !.release_date = Some(value)]
    ELSE IF key \in MetadataKeys.description THEN [self EXCEPT !.description = Some(value)]
    ELSE IF key \in MetadataKeys.igdb_id
    THEN [self EXCEPT !.igdb_id = IF parse_u32(value) = NoParse THEN None
                                  ELSE Some(parse_u32(value))]
    ELSE self

\* lines 84-89 and 112-116: the multi-line value that was being built is saved
save_multiline(self, current_key, multiline_value) ==
    IF current_key # None /\ multiline_value # <<>>
    THEN set_metadata_value(self, current_key[1], multiline_value)
    ELSE self

\* line.split_once(':'), key and value trimmed, the key in lower case
KeyOf(line) == to_lowercase(trim(SubSeq(line, 1, Min({k \in DOMAIN line : line[k] = ":"}) - 1)))
ValueOf(line) == trim(SubSeq(line, Min({k \in DOMAIN line : line[k] = ":"}) + 1, Len(line)))

\* lines 82-100: a line that starts a key-value pair
key_line(self, key, value, current_key, multiline_value) ==
    IF value = <<>>
    THEN [self |-> save_multiline(self, current_key, multiline_value),
          current_key |-> Some(key), multiline_value |-> <<>>]
    ELSE [self |-> set_metadata_value(save_multiline(self, current_key, multiline_value),
                                      key, value),
          current_key |-> None, multiline_value |-> <<>>]

\* lines 73-108: one turn of the loop over content.lines(), line being trimmed
parse_line(st, line) ==
    IF line = <<>> \/ Head(line) = "#" THEN st
    ELSE IF contains(line, ":")
    THEN key_line(st.self, KeyOf(line), ValueOf(line), st.current_key, st.multiline_value)
    ELSE IF st.current_key # None
    THEN [st EXCEPT !.multiline_value = IF @ # <<>> THEN @ \o <<"\n">> \o line ELSE line]
    ELSE st

RECURSIVE parse_lines(_, _)
parse_lines(st, lines) ==
    IF lines = <<>> THEN st ELSE parse_lines(parse_line(st, trim(Head(lines))), Tail(lines))

\* a parser that forgets the block the text ends in
save_trailing_dropped(st) == st.self

\* the trailing block is saved at the end of the text
save_trailing(st) == save_multiline(st.self, st.current_key, st.multiline_value)

\* GameInfo::parse_metadata on a text given by its lines
parse_metadata(self, content) ==
    save_trailing(parse_lines([self |-> self, current_key |-> None, multiline_value |-> <<>>],
                              content))

\* the lines an info text is made of
MaxLines == 3
InfoLines ==
    [description_ |-> <<"D", "e", "s", "c", "r", "i", "p", "t", "i", "o", "n", " ", ":">>,
     one |-> <<"o", "n", "e">>,
     two |-> <<" ", "t", "w", "o", " ">>,
     blank |-> <<>>,
     comment |-> <<"#", " ", "n", "o", "t", "e">>,
     unknown |-> <<"m", "o", "o", "d", ":", " ", "c", "a", "l", "m">>,
     unknown_ |-> <<"m", "o", "o", "d", ":">>,
     developer |-> <<"d", "e", "v", "e", "l", "o", "p", "e", "r", ":", " ", "D", "e", "v">>,
     igdb_ |-> <<"i", "g", "d", "b", ":">>,
     seven |-> <<"7">>,
     title |-> <<"t", "i", "t", "l", "e", ":", " ", "T">>]
InfoContents == UNION {[1..n -> {InfoLines[k] : k \in DOMAIN InfoLines}] : n \in 0..MaxLines}

\* parse_metadata was not called yet
NothingParsed == [content |-> <<>>, self |-> DefaultInfo]

\* parse_metadata on a fresh GameInfo
ParseMetadata ==
    /\ parsed = NothingParsed
    /\ \E content \in InfoContents :
          parsed' = [content |-> content, self |-> parse_metadata(DefaultInfo, content)]
    /\ UNCHANGED <<using_local_fallback, local_path, local_dir, game, first_pass>>
    /\ UNCHANGED <<cacheVars, handlerVars>>

\* str::replace for one character
replace(s, from, to) == [k \in DOMAIN s |-> IF s[k] = from THEN to ELSE s[k]]

\* char::to_uppercase on the alphabet of the model
UpperChar(c) == IF c \in LowerSet THEN UpperLetters[IndexOf(LowerLetters, c)] ELSE c

\* lines 251-261: split(' '), the first character of every word in upper
\* case, join(" "): the characters at the start and after a space
title_case(s) ==
    [k \in DOMAIN s |-> IF k = 1 \/ s[k - 1] = " " THEN UpperChar(s[k]) ELSE s[k]]

\* lines 248-262: the title is made from the directory name only when it is empty
or_title_case(title, dir_name) ==
    IF title = <<>> THEN title_case(replace(dir_name, "_", " ")) ELSE title

\* the info file a game directory may hold: none, one that names the
\* developer, one that sets the title
ScanInfoTexts == {None, Some(<<InfoLines.developer>>), Some(<<InfoLines.title>>)}

\* GameInfo::default()
EmptyGame == [id |-> <<>>, title |-> <<>>, files |-> <<>>, versions |-> <<>>]

\* lines 327-338: the default version the scanner adds when the resolver gave none
EnsureVersion(files, versions) ==
    IF versions = <<>> /\ files # <<>>
    THEN <<[name |-> DefaultVersionName, build |-> 1, files |-> files, required_patches |-> <<>>]>>
    ELSE versions

\* no installer was handed to the first pass yet
NoFirstPass == [file_name |-> <<>>, found_version |-> FALSE, build |-> <<>>, overflow |-> FALSE,
                panicked |-> FALSE]

\* SmbConnection::connect: a server field that names an existing local directory
\* switches to the local fallback; anything else is the simulated share
Connect ==
    /\ \E local_dir_exists \in BOOLEAN :
          IF local_dir_exists
          THEN using_local_fallback' = TRUE /\ local_path' = "Some"
          ELSE UNCHANGED <<using_local_fallback, local_path>>
    /\ UNCHANGED <<local_dir, game, first_pass, parsed>>
    /\ UNCHANGED <<cacheVars, handlerVars>>

\* lines 231-322: the files of the game, read from the local directory or made up
FilesOf(dir_name) ==
    IF using_local_fallback
    THEN IF local_path = "Some" THEN ScanFiles(dir_name, local_dir.files)
         ELSE add_demo_files(dir_name)
    ELSE add_demo_files(dir_name)

\* lines 218-262: the title of the game: the directory name with spaces for
\* underscores, then, in the local repository, what the info file makes of it
TitleOf(dir_name) ==
    IF using_local_fallback /\ local_path = "Some"
    THEN IF local_dir.info = None
         THEN or_title_case(replace(dir_name, "_", " "), dir_name)
         ELSE or_title_case(
                  parse_metadata([DefaultInfo EXCEPT !.title = replace(dir_name, "_", " ")],
                                 local_dir.info[1]).title,
                  dir_name)
    ELSE replace(dir_name, "_", " ")

\* lines 217-340: the record get_game_info returns for these files
get_game_info(dir_name, files, order) ==
    [id |-> dir_name, title |-> TitleOf(dir_name), files |-> files,
     versions |-> EnsureVersion(files, parse_versions(files, order))]

\* SmbConnection::get_game_info, as list_games calls it for one directory: the
\* directory of the local repository, or one of the simulated share
GetGameInfo(dir_name) ==
    /\ using_local_fallback => dir_name = local_dir.name
    /\ \E files \in {FilesOf(dir_name)} : \E order \in MapOrders(files) :
          game' = get_game_info(dir_name, files, order)
    /\ UNCHANGED <<using_local_fallback, local_path, local_dir, first_pass, parsed>>
    /\ UNCHANGED <<cacheVars, handlerVars>>

\* GameInfo::parse_versions called on the game record as it stands
ParseVersions ==
    /\ \E order \in MapOrders(game.files) :
          game' = [game EXCEPT !.versions = parse_versions(game.files, order)]
    /\ UNCHANGED <<using_local_fallback, local_path, local_dir, first_pass, parsed>>
    /\ UNCHANGED <<cacheVars, handlerVars>>

ScanInit ==
    /\ using_local_fallback = FALSE
    /\ local_path = "None"
    /\ local_dir \in [name : {LocalDirName}, files : Listings, info : {None}]
    /\ game = EmptyGame
    /\ first_pass = NoFirstPass
    /\ parsed = NothingParsed

----------------------------------------------------------------------------
(* The metadata cache: MetadataCache and CachedMetadata                    *)

\* the game ids the store is asked about
GameIds == {"hades", "doom_2"}
\* the games of the library handed to a batch
LibraryIds == GameIds \cup {"celeste"}

SecondsPerDay == 86400

\* the instants at which the clock is read: SystemTime::now() as whole seconds
Instants == {0, SecondsPerDay - 1, SecondsPerDay, SecondsPerDay + 1}

\* the ages is_stale is asked about, as the handler's callers may pass them
Days == {0, 1}

\* an IgdbGame as the collaborator returns it (the optional fields are kept
\* where they differ in kind: a nested struct, a number, an absent value)
IgdbGames ==
    {[id |-> 7, name |-> "Hades", summary |-> Some("rogue-like"),
      cover |-> Some([id |-> 70, url |-> None, image_id |-> "co1"]), total_rating |-> Some(93)],
     [id |-> 9, name |-> "Doom", summary |-> None, cover |-> None, total_rating |-> None]}

\* serde_json values
JNull == <<"null">>
JNum(n) == <<"num", n>>
JStr(str) == <<"str", str>>
JObj(fields) == <<"obj", fields>>
\* a file that does not hold the JSON of a CachedMetadata (a write cut short)
Garbage == <<"garbage">>
NoFile == <<"no file">>

\* Serialize for Option<T>, the option holding the JSON of its value: None is
\* written as null
OptToJson(opt) == IF opt = None THEN JNull ELSE opt[1]
\* Deserialize for Option<T>: null is read as None; the length of the option read
OptLen(j) == IF j = JNull THEN 0 ELSE 1

CoverToJson(c) ==
    JObj([id |-> JNum(c.id), url |-> OptToJson([i \in DOMAIN c.url |-> JStr(c.url[i])]),
          image_id |-> JStr(c.image_id)])
CoverFromJson(j) ==
    [id |-> j[2].id[2], url |-> [i \in 1..OptLen(j[2].url) |-> j[2].url[2]],
     image_id |-> j[2].image_id[2]]

\* #[derive(Serialize, Deserialize)] for IgdbGame
IgdbToJson(g) ==
    JObj([id |-> JNum(g.id), name |-> JStr(g.name),
          summary |-> OptToJson([i \in DOMAIN g.summary |-> JStr(g.summary[i])]),
          cover |-> OptToJson([i \in DOMAIN g.cover |-> CoverToJson(g.cover[i])]),
          total_rating |-> OptToJson([i \in DOMAIN g.total_rating |-> JNum(g.total_rating[i])])])
IgdbFromJson(j) ==
    [id |-> j[2].id[2], name |-> j[2].name[2],
     summary |-> [i \in 1..OptLen(j[2].summary) |-> j[2].summary[2]],
     cover |-> [i \in 1..OptLen(j[2].cover) |-> CoverFromJson(j[2].cover)],
     total_rating |-> [i \in 1..OptLen(j[2].total_rating) |-> j[2].total_rating[2]]]

\* a serializer that forgets the timestamp
to_json_without_timestamp(m) ==
    JObj([game_id |-> JStr(m.game_id),
          igdb_id |-> OptToJson([i \in DOMAIN m.igdb_id |-> JNum(m.igdb_id[i])]),
          igdb_data |-> OptToJson([i \in DOMAIN m.igdb_data |-> IgdbToJson(m.igdb_data[i])]),
          cover_path |-> OptToJson([i \in DOMAIN m.cover_path |-> JStr(m.cover_path[i])]),
          last_updated |-> JNum(0)])

\* serde_json::to_string_pretty(&metadata), line 168
to_json(m) ==
    JObj([game_id |-> JStr(m.game_id),
          igdb_id |-> OptToJson([i \in DOMAIN m.igdb_id |-> JNum(m.igdb_id[i])]),
          igdb_data |-> OptToJson([i \in DOMAIN m.igdb_data |-> IgdbToJson(m.igdb_data[i])]),
          cover_path |-> OptToJson([i \in DOMAIN m.cover_path |-> JStr(m.cover_path[i])]),
          last_updated |-> JNum(m.last_updated)])

\* a Result: Ok(value) or Err(error)
Ok(x) == <<"Ok", x>>
Err == <<"Err">>
IsOk(result) == result[1] = "Ok"

\* serde_json::from_str::<CachedMetadata>, line 123: Err for anything else than
\* the JSON of a CachedMetadata
from_json(j) ==
    IF j[1] # "obj" THEN Err
    ELSE Ok([game_id |-> j[2].game_id[2],
             igdb_id |-> [i \in 1..OptLen(j[2].igdb_id) |-> j[2].igdb_id[2]],
             igdb_data |-> [i \in 1..OptLen(j[2].igdb_data) |-> IgdbFromJson(j[2].igdb_data)],
             cover_path |-> [i \in 1..OptLen(j[2].cover_path) |-> j[2].cover_path[2]],
             last_updated |-> j[2].last_updated[2]])

\* MetadataCache::get_metadata_path: metadata_dir().join(format!("{}.json", game_id))
get_metadata_path(game_id) == <<"metadata", game_id, ".json">>
MetadataPaths == {get_metadata_path(id) : id \in LibraryIds}

\* MetadataCache::get_cover_path, relative to the cache directory
CoverRelPath(game_id) == <<"images", game_id, "_cover.jpg">>

\* the in-memory HashMap<String, CachedMetadata> is a function on its keys
EmptyMap == [id \in {} |-> None]
\* HashMap::insert
insert(map, key, value) == [k \in DOMAIN map \cup {key} |-> IF k = key THEN value ELSE map[k]]

\* MetadataCache::create_metadata
create_metadata(game_id) ==
    [game_id |-> game_id, igdb_id |-> None, igdb_data |-> None, cover_path |-> None,
     last_updated |-> now]

\* now.saturating_sub(metadata.last_updated)
saturating_sub(a, b) == IF a >= b THEN a - b ELSE 0

\* MetadataCache::is_stale
is_stale(game_id, days) ==
    IF game_id \in DOMAIN metadata
    THEN saturating_sub(now, metadata[game_id].last_updated) \div SecondsPerDay > days
    ELSE TRUE

\* what the last operation of the store returned: Ok(value) or Err, the value
\* being a record (Some) or the unit (None), and where a loaded record came from
Returned(op, id, ok, value, source) ==
    [op |-> op, id |-> id, ok |-> ok, value |-> value, source |-> source]

\* the records a caller may hand to save_metadata at the present instant
SaveInputs ==
    {[game_id |-> id, igdb_id |-> None, igdb_data |-> None, cover_path |-> None,
      last_updated |-> t] : id \in GameIds, t \in {0, now}}
    \cup
    {[game_id |-> id, igdb_id |-> Some(g.id), igdb_data |-> Some(g),
      cover_path |-> IF g.cover = None THEN None ELSE Some(CoverRelPath(id)),
      last_updated |-> now] : id \in GameIds, g \in IgdbGames}

\* the clock advances
Tick ==
    /\ \E t \in Instants : t > now /\ now' = t
    /\ UNCHANGED <<metadata, disk, ret>>
    /\ UNCHANGED <<scanVars, handlerVars>>

\* MetadataCache::new on the same cache directory: an empty in-memory map
MetadataCacheNew ==
    /\ metadata' = EmptyMap
    /\ UNCHANGED <<now, disk, ret>>
    /\ UNCHANGED <<scanVars, handlerVars>>

\* what fs::write leaves at the path: the text, or on an error the old file or
\* a file cut short
WriteFile(path, text, io_ok, cut_short) ==
    IF io_ok THEN [disk EXCEPT ![path] = text]
    ELSE IF cut_short THEN [disk EXCEPT ![path] = Garbage]
    ELSE disk

\* MetadataCache::save_metadata
save_metadata(m, io_ok, cut_short) ==
    /\ metadata' = insert(metadata, m.game_id, m)
    /\ disk' = WriteFile(get_metadata_path(m.game_id), to_json(m), io_ok, cut_short)
    /\ ret' = Returned("save_metadata", m.game_id, io_ok, IF io_ok THEN Some(m) ELSE None, "caller")

SaveMetadata ==
    /\ \E m \in SaveInputs : \E io_ok, cut_short \in BOOLEAN : save_metadata(m, io_ok, cut_short)
    /\ UNCHANGED <<now>>
    /\ UNCHANGED <<scanVars, handlerVars>>

\* MetadataCache::load_metadata_file
load_metadata_file(path) == from_json(disk[path])

\* a load that answers a file that cannot be parsed with a fresh record
LoadFromFileOrDefault(game_id, result) ==
    IF IsOk(result)
    THEN /\ metadata' = insert(metadata, game_id, result[2])
         /\ ret' = Returned("load_metadata", game_id, TRUE, Some(result[2]), "disk")
    ELSE /\ metadata' = insert(metadata, game_id, create_metadata(game_id))
         /\ ret' = Returned("load_metadata", game_id, TRUE, Some(create_metadata(game_id)), "new")

\* lines 137-145: the metadata file exists; the file is read and parsed, and an
\* error is handed to the caller
LoadFromFile(game_id, result) ==
    IF IsOk(result)
    THEN /\ metadata' = insert(metadata, game_id, result[2])
         /\ ret' = Returned("load_metadata", game_id, TRUE, Some(result[2]), "disk")
    ELSE /\ ret' = Returned("load_metadata", game_id, FALSE, None, "disk")
         /\ UNCHANGED metadata

\* a load that hands out the fresh record without keeping it in memory
LoadMetadataUnregistered(game_id) ==
    /\ IF game_id \in DOMAIN metadata
       THEN /\ ret' = Returned("load_metadata", game_id, TRUE, Some(metadata[game_id]), "memory")
            /\ UNCHANGED metadata
       ELSE IF disk[get_metadata_path(game_id)] # NoFile
       THEN LoadFromFile(game_id, load_metadata_file(get_metadata_path(game_id)))
       ELSE /\ ret' = Returned("load_metadata", game_id, TRUE, Some(create_metadata(game_id)), "new")
            /\ UNCHANGED metadata
    /\ UNCHANGED <<now, disk>>
    /\ UNCHANGED <<scanVars, handlerVars>>

\* MetadataCache::load_metadata
LoadMetadata(game_id) ==
    /\ IF game_id \in DOMAIN metadata
       THEN /\ ret' = Returned("load_metadata", game_id, TRUE, Some(metadata[game_id]), "memory")
            /\ UNCHANGED metadata
       ELSE IF disk[get_metadata_path(game_id)] # NoFile
       THEN LoadFromFile(game_id, load_metadata_file(get_metadata_path(game_id)))
       ELSE /\ metadata' = insert(metadata, game_id, create_metadata(game_id))
            /\ ret' = Returned("load_metadata", game_id, TRUE, Some(create_metadata(game_id)), "new")
    /\ UNCHANGED <<now, disk>>
    /\ UNCHANGED <<scanVars, handlerVars>>

CacheInit ==
    /\ now = 0
    /\ metadata = EmptyMap
    /\ disk = [path \in MetadataPaths |-> NoFile]
    /\ ret = Returned("new", "", TRUE, None, "caller")

\* the scanner at rest on an empty local directory
ScanIdle ==
    /\ using_local_fallback = FALSE
    /\ local_path = "None"
    /\ local_dir = [name |-> LocalDirName, files |-> <<>>, info |-> None]
    /\ game = EmptyGame
    /\ first_pass = NoFirstPass
    /\ parsed = NothingParsed

----------------------------------------------------------------------------
(* The metadata handler                                                    *)

\* the age in days past which cached enrichment is fetched again
StaleDays == 30

\* the longest list of games handed to one batch, and the batches run
MaxGames == 3
MaxBatches == 1

\* the instant of the first calls and one at which what they cached is stale
HandlerInstants == {0, (StaleDays + 1) * SecondsPerDay}

\* what a write of a file does: all of it, nothing, or a file cut short; both
\* errors are an Err to the writer
IoOutcomes == {"ok", "failed", "cut_short"}

\* what IgdbClient::find_best_match answers for the name of a game: the game
\* of that name, no game, or an error of the transport or of the query
SearchOutcomes(game_id) ==
    {Ok(Some(g)) : g \in {i \in IgdbGames : (i.name = "Hades") = (game_id = "hades")}}
    \cup {Ok(None), Err}

\* the (game_id, game_name) lists of a batch; the name travels with the id
GameLists == UNION {[1..n -> LibraryIds] : n \in 0..MaxGames}

\* the handler and the files of its cache directory as one call works on them:
\* the statuses it has handed to send_status, the calls it has made to the
\* collaborator, the last answer of find_best_match, and its result
Self(statuses, searches, downloads) ==
    [metadata |-> metadata, disk |-> disk, covers |-> covers, last_refresh |-> last_refresh,
     events |-> statuses, searches |-> searches, downloads |-> downloads, answer |-> "none",
     result |-> "Ok(())", progress_tx |-> progress_tx, delivered |-> 0]

\* MetadataHandler::send_status: the status is handed to the progress channel
\* when there is one, and reaches the receiving end when that is alive; an
\* error of the send is logged
send_status(h, status) ==
    [h EXCEPT !.events = Append(@, status),
              !.delivered = IF h.progress_tx = "live" THEN @ + 1 ELSE @]

\* MetadataCache::save_metadata on the cache of the handler
cache_save_metadata(h, m, io) ==
    [h EXCEPT !.metadata = insert(@, m.game_id, m),
              !.disk = IF io = "ok" THEN [@ EXCEPT ![get_metadata_path(m.game_id)] = to_json(m)]
                       ELSE IF io = "cut_short"
                       THEN [@ EXCEPT ![get_metadata_path(m.game_id)] = Garbage]
                       ELSE @,
              !.result = IF io = "ok" THEN "Ok(())" ELSE "Err"]

\* MetadataCache::update_with_igdb
update_with_igdb(h, game_id, igdb_game, io) ==
    cache_save_metadata(h,
        [(IF game_id \in DOMAIN h.metadata THEN h.metadata[game_id] ELSE create_metadata(game_id))
            EXCEPT !.igdb_id = Some(igdb_game.id), !.igdb_data = Some(igdb_game),
                   !.last_updated = now],
        io)

\* MetadataCache::update_cover_path
update_cover_path(h, game_id, cover_path, io) ==
    IF game_id \in DOMAIN h.metadata
    THEN cache_save_metadata(h,
             [h.metadata[game_id] EXCEPT !.cover_path = Some(cover_path), !.last_updated = now],
             io)
    ELSE [h EXCEPT !.result = "Ok(())"]

\* a load_all that fails as a whole on a file that does not parse
load_all_or_nothing(h, dir_ok) ==
    IF \/ ~dir_ok
       \/ \E i \in LibraryIds : /\ h.disk[get_metadata_path(i)] # NoFile
                                /\ ~IsOk(from_json(h.disk[get_metadata_path(i)]))
    THEN [h EXCEPT !.result = "Err"]
    ELSE [h EXCEPT !.metadata =
              [id \in DOMAIN h.metadata \cup
                      {i \in LibraryIds : h.disk[get_metadata_path(i)] # NoFile}
               |-> IF h.disk[get_metadata_path(id)] # NoFile
                   THEN from_json(h.disk[get_metadata_path(id)])[2]
                   ELSE h.metadata[id]],
             !.result = "Ok(())"]

\* MetadataCache::load_all: every metadata file that parses replaces the
\* in-memory record of its file stem; the others are skipped
load_all(h, dir_ok) ==
    IF ~dir_ok THEN [h EXCEPT !.result = "Err"]
    ELSE [h EXCEPT !.metadata =
              [id \in DOMAIN h.metadata \cup
                      {i \in LibraryIds : /\ h.disk[get_metadata_path(i)] # NoFile
                                       /\ IsOk(from_json(h.disk[get_metadata_path(i)]))}
               |-> IF /\ h.disk[get_metadata_path(id)] # NoFile
                      /\ IsOk(from_json(h.disk[get_metadata_path(id)]))
                   THEN from_json(h.disk[get_metadata_path(id)])[2]
                   ELSE h.metadata[id]],
             !.result = "Ok(())"]

\* MetadataHandler::has_igdb_metadata
has_igdb_metadata(h, game_id) ==
    game_id \in DOMAIN h.metadata /\ h.metadata[game_id].igdb_data # None

\* MetadataCache::has_cover: the cover file of the game exists
has_cover(h, game_id) == game_id \in h.covers

\* a search whose failures drop the cached record of the game
search_dropping_the_record(h, game_id, found, io) ==
    IF found = Err
    THEN send_status([h EXCEPT !.answer = "error", !.result = "Err",
                               !.metadata = [id \in DOMAIN @ \ {game_id} |-> @[id]]],
                     <<"Failed", game_id, "IGDB API error">>)
    ELSE IF found[2] = None
    THEN send_status([h EXCEPT !.answer = "no match", !.result = "Ok(false)",
                               !.metadata = [id \in DOMAIN @ \ {game_id} |-> @[id]]],
                     <<"Failed", game_id, "No matching game found on IGDB">>)
    ELSE IF io # "ok"
    THEN update_with_igdb([h EXCEPT !.answer = "match"], game_id, found[2][1], io)
    ELSE send_status([update_with_igdb([h EXCEPT !.answer = "match"], game_id, found[2][1], io)
                         EXCEPT !.last_refresh = @ \cup {game_id},
                                !.result = "Ok(true)"],
                     <<"Success", game_id>>)

\* lines 139-185: the search of the collaborator and what follows it
search_and_cache(h, game_id, found, io) ==
    IF found = Err
    THEN send_status([h EXCEPT !.answer = "error", !.result = "Err"],
                     <<"Failed", game_id, "IGDB API error">>)
    ELSE IF found[2] = None
    THEN send_status([h EXCEPT !.answer = "no match", !.result = "Ok(false)"],
                     <<"Failed", game_id, "No matching game found on IGDB">>)
    ELSE IF io # "ok"
    THEN update_with_igdb([h EXCEPT !.answer = "match"], game_id, found[2][1], io)
    ELSE send_status([update_with_igdb([h EXCEPT !.answer = "match"], game_id, found[2][1], io)
                         EXCEPT !.last_refresh = @ \cup {game_id},
                                !.result = "Ok(true)"],
                     <<"Success", game_id>>)

\* a fetch that asks the collaborator whatever the cache holds
fetch_always_searching(h, game_id, found, io) ==
    search_and_cache([send_status(h, <<"Started", game_id>>) EXCEPT !.searches = @ + 1],
                     game_id, found, io)

\* a fetch that returns the error of a send to a channel whose receiving end
\* is gone
fetch_needing_a_listener(h, game_id, found, io) ==
    IF h.progress_tx = "dropped"
    THEN [send_status(h, <<"Started", game_id>>) EXCEPT !.result = "Err"]
    ELSE IF has_igdb_metadata(h, game_id) /\ ~is_stale(game_id, StaleDays)
    THEN send_status([send_status(h, <<"Started", game_id>>)
                         EXCEPT !.last_refresh = @ \cup {game_id},
                                !.result = "Ok(true)"],
                     <<"Success", game_id>>)
    ELSE search_and_cache([send_status(h, <<"Started", game_id>>) EXCEPT !.searches = @ + 1],
                          game_id, found, io)

\* MetadataHandler::fetch_and_cache_metadata; the map is read as the call finds it
fetch_and_cache_metadata(h, game_id, found, io) ==
    IF has_igdb_metadata(h, game_id) /\ ~is_stale(game_id, StaleDays)
    THEN send_status([send_status(h, <<"Started", game_id>>)
                         EXCEPT !.last_refresh = @ \cup {game_id},
                                !.result = "Ok(true)"],
                     <<"Success", game_id>>)
    ELSE search_and_cache([send_status(h, <<"Started", game_id>>) EXCEPT !.searches = @ + 1],
                          game_id, found, io)

\* a cover download that does not record the path of the cover
download_cover_unrecorded(h, game_id, dl, io) ==
    IF ~has_igdb_metadata(h, game_id) THEN [h EXCEPT !.result = "Ok(false)"]
    ELSE IF h.metadata[game_id].igdb_data[1].cover = None THEN [h EXCEPT !.result = "Ok(false)"]
    ELSE IF has_cover(h, game_id) THEN [h EXCEPT !.result = "Ok(true)"]
    ELSE [h EXCEPT !.downloads = @ + 1,
                   !.covers = IF dl # "failed" THEN @ \cup {game_id} ELSE @,
                   !.result = IF dl = "ok" THEN "Ok(true)" ELSE "Ok(false)"]

\* MetadataHandler::download_cover; dl is what IgdbClient::download_cover does
\* with the cover file
download_cover(h, game_id, dl, io) ==
    IF ~has_igdb_metadata(h, game_id) THEN [h EXCEPT !.result = "Ok(false)"]
    ELSE IF h.metadata[game_id].igdb_data[1].cover = None THEN [h EXCEPT !.result = "Ok(false)"]
    ELSE IF has_cover(h, game_id) THEN [h EXCEPT !.result = "Ok(true)"]
    ELSE IF dl = "ok"
    THEN [update_cover_path([h EXCEPT !.downloads = @ + 1, !.covers = @ \cup {game_id}],
                            game_id, CoverRelPath(game_id), io)
             EXCEPT !.result = IF io = "ok" THEN "Ok(true)" ELSE "Err"]
    ELSE [h EXCEPT !.downloads = @ + 1,
                   !.covers = IF dl = "cut_short" THEN @ \cup {game_id} ELSE @,
                   !.result = "Ok(false)"]

\* lines 243-249: the cover is fetched after a fetch that returned true; an
\* error of the cover fetch is the result, otherwise the result of the fetch
cover_after_fetch(h, game_id, dl, io) ==
    IF h.result = "Ok(true)" /\ has_igdb_metadata(h, game_id)
    THEN [download_cover(h, game_id, dl, io)
             EXCEPT !.result = IF @ = "Err" THEN "Err" ELSE h.result]
    ELSE h

\* MetadataHandler::refresh_metadata
refresh_metadata(h, game_id, found, io, dl, io2) ==
    cover_after_fetch(fetch_and_cache_metadata(h, game_id, found, io), game_id, dl, io2)

\* a batch that counts a fetch that returned an error in neither counter
after_fetch_uncounted_errors(h, game_id, dl, io) ==
    IF h.result = "Ok(true)"
    THEN send_status([download_cover(h, game_id, dl, io) EXCEPT !.result = "updated"],
                     <<"Success", game_id>>)
    ELSE IF h.result = "Ok(false)"
    THEN send_status([h EXCEPT !.result = "failed"],
                     <<"Failed", game_id, "Could not find metadata">>)
    ELSE send_status([h EXCEPT !.result = "current"], <<"Failed", game_id, "error">>)

\* a batch that counts a game as failed when its cover could not be fetched or
\* recorded
after_fetch_counting_the_cover(h, game_id, dl, io) ==
    IF h.result = "Ok(true)"
    THEN IF download_cover(h, game_id, dl, io).result = "Ok(true)"
         THEN send_status([download_cover(h, game_id, dl, io) EXCEPT !.result = "updated"],
                          <<"Success", game_id>>)
         ELSE send_status([download_cover(h, game_id, dl, io) EXCEPT !.result = "failed"],
                          <<"Failed", game_id, "cover">>)
    ELSE IF h.result = "Ok(false)"
    THEN send_status([h EXCEPT !.result = "failed"],
                     <<"Failed", game_id, "Could not find metadata">>)
    ELSE send_status([h EXCEPT !.result = "failed"], <<"Failed", game_id, "error">>)

\* lines 281-311: what the batch does with the result of the fetch of a game;
\* the result of the cover fetch is dropped
after_fetch_in_batch(h, game_id, dl, io) ==
    IF h.result = "Ok(true)"
    THEN send_status([download_cover(h, game_id, dl, io) EXCEPT !.result = "updated"],
                     <<"Success", game_id>>)
    ELSE IF h.result = "Ok(false)"
    THEN send_status([h EXCEPT !.result = "failed"],
                     <<"Failed", game_id, "Could not find metadata">>)
    ELSE send_status([h EXCEPT !.result = "failed"], <<"Failed", game_id, "error">>)

\* a turn of the loop that reports its progress before the game is processed
process_game_progress_first(h, game_id, completed, total, found, io, dl, io2) ==
    IF ~has_igdb_metadata(h, game_id) \/ is_stale(game_id, StaleDays)
    THEN after_fetch_in_batch(
             fetch_and_cache_metadata(
                 send_status(send_status(h, <<"Progress", completed, total>>),
                             <<"Started", game_id>>),
                 game_id, found, io),
             game_id, dl, io2)
    ELSE send_status([send_status(send_status(h, <<"Progress", completed, total>>),
                                  <<"Started", game_id>>) EXCEPT !.result = "current"],
                     <<"Success", game_id>>)

\* a turn of the loop that skips every game that has enrichment, stale or not
process_game_skipping_stale(h, game_id, completed, total, found, io, dl, io2) ==
    send_status(
        IF ~has_igdb_metadata(h, game_id)
        THEN after_fetch_in_batch(
                 fetch_and_cache_metadata(send_status(h, <<"Started", game_id>>),
                                          game_id, found, io),
                 game_id, dl, io2)
        ELSE send_status([send_status(h, <<"Started", game_id>>) EXCEPT !.result = "current"],
                         <<"Success", game_id>>),
        <<"Progress", completed, total>>)

\* a turn of the loop that leaves the Started of the batch out
process_game_without_started(h, game_id, completed, total, found, io, dl, io2) ==
    send_status(
        IF ~has_igdb_metadata(h, game_id) \/ is_stale(game_id, StaleDays)
        THEN after_fetch_in_batch(fetch_and_cache_metadata(h, game_id, found, io),
                                  game_id, dl, io2)
        ELSE send_status([h EXCEPT !.result = "current"], <<"Success", game_id>>),
        <<"Progress", completed, total>>)

\* a turn of the loop that counts a game that is up to date as updated
process_game_counting_current(h, game_id, completed, total, found, io, dl, io2) ==
    send_status(
        IF ~has_igdb_metadata(h, game_id) \/ is_stale(game_id, StaleDays)
        THEN after_fetch_in_batch(
                 fetch_and_cache_metadata(send_status(h, <<"Started", game_id>>),
                                          game_id, found, io),
                 game_id, dl, io2)
        ELSE send_status([send_status(h, <<"Started", game_id>>) EXCEPT !.result = "updated"],
                         <<"Success", game_id>>),
        <<"Progress", completed, total>>)

\* lines 269-324: one turn of the loop of update_library_metadata, for the
\* game at position completed of total
process_game(h, game_id, completed, total, found, io, dl, io2) ==
    send_status(
        IF ~has_igdb_metadata(h, game_id) \/ is_stale(game_id, StaleDays)
        THEN after_fetch_in_batch(
                 fetch_and_cache_metadata(send_status(h, <<"Started", game_id>>),
                                          game_id, found, io),
                 game_id, dl, io2)
        ELSE send_status([send_status(h, <<"Started", game_id>>) EXCEPT !.result = "current"],
                         <<"Success", game_id>>),
        <<"Progress", completed, total>>)

\* what the last call of the handler returned and the calls it made to the
\* collaborator; seq tells a call from the call before it
HandlerReturned(h, op, id) ==
    [op |-> op, id |-> id, result |-> h.result, searches |-> h.searches,
     downloads |-> h.downloads, answer |-> h.answer, seq |-> 1 - hret.seq,
     delivered |-> h.delivered]

\* no batch is running and none was run
NoBatch == [running |-> FALSE, games |-> <<>>, i |-> 0, updated |-> 0, failed |-> 0, runs |-> 0]

\* the call returns: the handler and its files are as the call left them
Return(h, op, id) ==
    /\ metadata' = h.metadata
    /\ disk' = h.disk
    /\ covers' = h.covers
    /\ last_refresh' = h.last_refresh
    /\ events' = h.events
    /\ hret' = HandlerReturned(h, op, id)
    /\ progress_tx' = h.progress_tx
    /\ UNCHANGED <<now, ret, spawned, app>>
    /\ UNCHANGED scanVars

\* time passes, also while a batch runs
Wait ==
    /\ \E t \in HandlerInstants : t > now /\ now' = t
    /\ UNCHANGED <<metadata, disk, ret>>
    /\ UNCHANGED <<scanVars, handlerVars>>

\* MetadataHandler::new on the same cache directory
MetadataHandlerNew ==
    /\ ~batch.running
    /\ Return([Self(<<>>, 0, 0) EXCEPT !.metadata = EmptyMap, !.last_refresh = {},
                                        !.progress_tx = "None"], "new", "")
    /\ UNCHANGED batch

\* MetadataHandler::initialize
Initialize ==
    /\ ~batch.running
    /\ \E dir_ok \in BOOLEAN : Return(load_all(Self(<<>>, 0, 0), dir_ok), "initialize", "")
    /\ UNCHANGED batch

FetchAndCacheMetadata(game_id) ==
    /\ ~batch.running
    /\ \E found \in SearchOutcomes(game_id), io \in IoOutcomes :
          Return(fetch_and_cache_metadata(Self(<<>>, 0, 0), game_id, found, io),
                 "fetch_and_cache_metadata", game_id)
    /\ UNCHANGED batch

DownloadCover(game_id) ==
    /\ ~batch.running
    /\ \E dl, io \in IoOutcomes :
          Return(download_cover(Self(<<>>, 0, 0), game_id, dl, io), "download_cover", game_id)
    /\ UNCHANGED batch

RefreshMetadata(game_id) ==
    /\ ~batch.running
    /\ \E found \in SearchOutcomes(game_id), io, dl, io2 \in IoOutcomes :
          Return(refresh_metadata(Self(<<>>, 0, 0), game_id, found, io, dl, io2),
                 "refresh_metadata", game_id)
    /\ UNCHANGED batch

\* MetadataHandler::update_library_metadata up to the loop (lines 257-267)
UpdateLibraryMetadata ==
    /\ ~batch.running
    /\ batch.runs < MaxBatches
    /\ \E games \in GameLists :
          /\ batch' = [NoBatch EXCEPT !.running = TRUE, !.games = games, !.runs = batch.runs + 1]
          /\ Return([send_status(Self(<<>>, 0, 0), <<"Progress", 0, Len(games)>>)
                        EXCEPT !.result = "running"],
                    "update_library_metadata", "")

\* one turn of the loop
ProcessGame ==
    /\ batch.running
    /\ batch.i < Len(batch.games)
    /\ \E found \in SearchOutcomes(batch.games[batch.i + 1]), io, dl, io2 \in IoOutcomes :
          \E h \in {process_game(Self(events, hret.searches, hret.downloads),
                                 batch.games[batch.i + 1], batch.i + 1, Len(batch.games),
                                 found, io, dl, io2)} :
             /\ batch' = [batch EXCEPT !.i = @ + 1,
                                       !.updated = IF h.result = "updated" THEN @ + 1 ELSE @,
                                       !.failed = IF h.result = "failed" THEN @ + 1 ELSE @]
             /\ metadata' = h.metadata
             /\ disk' = h.disk
             /\ covers' = h.covers
             /\ last_refresh' = h.last_refresh
             /\ events' = h.events
             /\ hret' = [hret EXCEPT !.searches = h.searches, !.downloads = h.downloads,
                                     !.answer = h.answer, !.delivered = h.delivered]
    /\ UNCHANGED <<now, ret, progress_tx, spawned, app>>
    /\ UNCHANGED scanVars

\* lines 326-337: the loop is over; Completed is sent and Ok(()) returned
CompleteBatch ==
    /\ batch.running
    /\ batch.i = Len(batch.games)
    /\ events' = Append(events, <<"Completed", batch.updated, batch.failed, Len(batch.games)>>)
    /\ hret' = [hret EXCEPT !.result = "Ok(())",
                            !.delivered = IF progress_tx = "live" THEN 1 ELSE 0]
    /\ batch' = [batch EXCEPT !.running = FALSE]
    /\ UNCHANGED <<now, metadata, disk, ret, covers, last_refresh, progress_tx, spawned, app>>
    /\ UNCHANGED scanVars

\* MetadataHandler::set_progress_channel with the sender of a new channel
SetProgressChannel ==
    /\ ~batch.running
    /\ progress_tx' = "live"
    /\ UNCHANGED <<covers, last_refresh, events, hret, batch, spawned, app>>
    /\ UNCHANGED <<scanVars, cacheVars>>

\* the receiving end of the channel is dropped
DropReceiver ==
    /\ progress_tx = "live"
    /\ progress_tx' = "dropped"
    /\ UNCHANGED <<covers, last_refresh, events, hret, batch, spawned, app>>
    /\ UNCHANGED <<scanVars, cacheVars>>

----------------------------------------------------------------------------
(* Two refreshes of one game at once: the task of a single-game refresh    *)
(* (ui/app.rs 402-446, refresh_metadata) and the task of a batch refresh   *)
(* (ui/app.rs 355-385, update_library_metadata), each on its own clone of  *)
(* the handler, on the worker threads of the runtime.  The clones share    *)
(* the cache directory.  fs::write is File::create, which truncates the    *)
(* file, followed by write_all from offset 0.                              *)

Tasks == {"single", "batch"}
\* the game both tasks refresh
RaceId == "hades"

NoTask == [pc |-> "idle", metadata |-> EmptyMap, result |-> "none"]
\* no task was spawned; last_saved is the record of the save_metadata whose
\* write ended last, file_len the length of the metadata file of the game
NoTasks == [single |-> NoTask, batch |-> NoTask, last_saved |-> None, file_len |-> 0]

\* the length of to_string_pretty of a record: null for the cover path is
\* shorter than "images/<id>_cover.jpg"; the other fields of two records of
\* the same game are as long (timestamps of these years have ten digits)
json_len(m) == IF m.cover_path = None THEN 1 ELSE 2

\* ui/app.rs 373-384 and 430-446: the task starts on a clone of the handler of
\* the application, whose map no call ever fills
Spawn(t) ==
    /\ spawned[t].pc = "idle"
    /\ spawned' = [spawned EXCEPT ![t] = [NoTask EXCEPT !.pc = "search", !.metadata = metadata]]
    /\ UNCHANGED <<covers, last_refresh, events, hret, batch, progress_tx, app>>
    /\ UNCHANGED <<scanVars, cacheVars>>

\* handler.rs 116-171: the clone holds no enrichment for the game, the
\* collaborator is asked, and a match is put in the map of the clone by
\* update_with_igdb and save_metadata (cache.rs 156)
TaskSearches(t) ==
    /\ spawned[t].pc = "search"
    /\ \E found \in SearchOutcomes(RaceId) :
          spawned' = [spawned EXCEPT ![t] =
              IF found = Err THEN [@ EXCEPT !.pc = "done", !.result = "Err"]
              ELSE IF found[2] = None THEN [@ EXCEPT !.pc = "done", !.result = "Ok(false)"]
              ELSE [@ EXCEPT !.pc = "create",
                             !.metadata = insert(@, RaceId,
                                 [create_metadata(RaceId)
                                     EXCEPT !.igdb_id = Some(found[2][1].id),
                                            !.igdb_data = Some(found[2][1]),
                                            !.last_updated = now])]]
    /\ UNCHANGED <<covers, last_refresh, events, hret, batch, progress_tx, app>>
    /\ UNCHANGED <<scanVars, cacheVars>>

\* cache.rs 171, first half of fs::write: File::create truncates the file
TaskCreatesFile(t) ==
    /\ spawned[t].pc = "create"
    /\ disk' = [disk EXCEPT ![get_metadata_path(RaceId)] = Garbage]
    /\ spawned' = [spawned EXCEPT ![t].pc = "write", !.file_len = 0]
    /\ UNCHANGED <<now, metadata, ret>>
    /\ UNCHANGED <<covers, last_refresh, events, hret, batch, progress_tx, app>>
    /\ UNCHANGED scanVars

\* cache.rs 171, second half of fs::write: write_all from offset 0; what the
\* file held beyond the length of the record stays
TaskWritesFile(t) ==
    /\ spawned[t].pc = "write"
    /\ disk' = [disk EXCEPT ![get_metadata_path(RaceId)] =
                    IF spawned.file_len <= json_len(spawned[t].metadata[RaceId])
                    THEN to_json(spawned[t].metadata[RaceId])
                    ELSE Garbage]
    /\ spawned' = [spawned EXCEPT
                      ![t].pc = IF spawned[t].metadata[RaceId].cover_path = None
                                THEN "cover" ELSE "done",
                      ![t].result = "Ok(true)",
                      !.last_saved = Some(spawned[t].metadata[RaceId]),
                      !.file_len = IF @ <= json_len(spawned[t].metadata[RaceId])
                                   THEN json_len(spawned[t].metadata[RaceId]) ELSE @]
    /\ UNCHANGED <<now, metadata, ret>>
    /\ UNCHANGED <<covers, last_refresh, events, hret, batch, progress_tx, app>>
    /\ UNCHANGED scanVars

\* handler.rs 189-216: download_cover after the fetch returned Ok(true); a
\* cover file that exists ends the call
TaskLooksForCover(t) ==
    /\ spawned[t].pc = "cover"
    /\ spawned' = [spawned EXCEPT ![t].pc = IF RaceId \in covers THEN "done" ELSE "download"]
    /\ UNCHANGED <<covers, last_refresh, events, hret, batch, progress_tx, app>>
    /\ UNCHANGED <<scanVars, cacheVars>>

\* handler.rs 219-231: the cover is downloaded and written, and the record of
\* the clone gets its path (cache.rs 241-251); a failed download is Ok(false)
\* inside download_cover and leaves the result of the task as it is
TaskDownloadsCover(t) ==
    /\ spawned[t].pc = "download"
    /\ \E dl \in {"ok", "failed"} :
          IF dl = "ok"
          THEN /\ covers' = covers \cup {RaceId}
               /\ spawned' = [spawned EXCEPT
                     ![t].pc = "create",
                     ![t].metadata = insert(@, RaceId,
                         [@[RaceId] EXCEPT !.cover_path = Some(CoverRelPath(RaceId)),
                                           !.last_updated = now])]
          ELSE /\ spawned' = [spawned EXCEPT ![t].pc = "done"]
               /\ UNCHANGED covers
    /\ UNCHANGED <<last_refresh, events, hret, batch, progress_tx, app>>
    /\ UNCHANGED <<scanVars, cacheVars>>

----------------------------------------------------------------------------
(* The application (ui/app.rs): the handler it keeps for the views, the    *)
(* tasks it spawns on clones of that handler, the status channel from the  *)
(* tasks to check_metadata_status, and the refresh states both write.      *)
(* `metadata` is the map of the handler the application keeps; a clone     *)
(* (derive Clone, handler.rs 27 and cache.rs 11) has a map of its own.     *)

\* the FetchMetadata actions handled and the batch tasks started
MaxClicks == 2
MaxRefreshAll == 2

\* GameLibraryApp.games as a batch is handed it: the ids are directory names
\* of one repository, so no id comes twice
AppGameLists ==
    {games \in UNION {[1..n -> GameIds] : n \in 0..Cardinality(GameIds)} :
        \A i, j \in DOMAIN games : games[i] = games[j] => i = j}

\* a batch task that has ended and was dropped
DoneTask ==
    [pc |-> "done", games |-> <<>>, i |-> 0, metadata |-> EmptyMap, updated |-> 0, failed |-> 0,
     ok |-> {}]

\* GameLibraryApp::new (app.rs 75-110); init is the task of initialize(),
\* loaded the ids its clone registered, refreshed the ids for which a task
\* that has ended fetched with Ok(true)
GameLibraryAppNew ==
    [handler |-> FALSE, init |-> "idle", loaded |-> {},
     is_batch_refreshing |-> FALSE, batch_progress |-> None,
     refresh_states |-> [id \in GameIds |-> None],
     channel |-> <<>>, singles |-> <<>>, batches |-> <<>>, refreshed |-> {}]

\* what a task hands to the channel: its statuses, when the clone has a sender
Sent(h) == IF h.progress_tx = "live" THEN h.events ELSE <<>>

\* ensure_metadata_handler (app.rs 303-331), called by update on every frame
\* before a view is shown: a new handler with the sender of the channel, and
\* initialize() spawned on a clone of it
EnsureMetadataHandler ==
    /\ ~app.handler
    /\ metadata' = EmptyMap
    /\ progress_tx' = "live"
    /\ app' = [app EXCEPT !.handler = TRUE, !.init = "spawned"]
    /\ UNCHANGED <<now, disk, ret>>
    /\ UNCHANGED <<covers, last_refresh, events, hret, batch, spawned>>
    /\ UNCHANGED scanVars

\* the task of app.rs 325-329: initialize() on the clone, which is dropped
\* when the task ends
InitializeTask ==
    /\ app.init = "spawned"
    /\ \E dir_ok \in BOOLEAN :
          \E h \in {load_all(Self(<<>>, 0, 0), dir_ok)} :
             app' = [app EXCEPT !.init = "done",
                                !.loaded = IF h.result = "Ok(())" THEN DOMAIN h.metadata ELSE {}]
    /\ UNCHANGED <<covers, last_refresh, events, hret, batch, progress_tx, spawned>>
    /\ UNCHANGED <<scanVars, cacheVars>>

\* handle_game_action, GameAction::FetchMetadata (app.rs 405-446): a new
\* RefreshState replaces that of the game, and refresh_metadata is spawned
\* on a clone of the handler
FetchMetadata(game_id) ==
    /\ app.handler
    /\ Len(app.singles) < MaxClicks
    /\ app' = [app EXCEPT
          !.refresh_states[game_id] =
              Some([owner |-> Len(app.singles) + 1, is_refreshing |-> TRUE, error |-> None]),
          !.singles = Append(@, [id |-> game_id, pc |-> "spawned", result |-> "none",
                                 searches |-> 0, after_ok |-> game_id \in app.refreshed])]
    /\ UNCHANGED <<covers, last_refresh, events, hret, batch, progress_tx, spawned>>
    /\ UNCHANGED <<scanVars, cacheVars>>

\* app.rs 437-438: the task calls refresh_metadata on its clone
SingleTaskRefreshes(k) ==
    /\ k \in DOMAIN app.singles
    /\ app.singles[k].pc = "spawned"
    /\ \E found \in SearchOutcomes(app.singles[k].id), io, dl, io2 \in IoOutcomes :
          \E h \in {refresh_metadata(Self(<<>>, 0, 0), app.singles[k].id, found, io, dl, io2)} :
             /\ disk' = h.disk
             /\ covers' = h.covers
             /\ app' = [app EXCEPT !.channel = @ \o Sent(h),
                                    !.singles[k].pc = "returned",
                                    !.singles[k].result = h.result,
                                    !.singles[k].searches = h.searches]
    /\ UNCHANGED <<now, metadata, ret>>
    /\ UNCHANGED <<last_refresh, events, hret, batch, progress_tx, spawned>>
    /\ UNCHANGED scanVars

\* app.rs 440-446: the task writes the RefreshState it was given, which is
\* the one of the map unless a later FetchMetadata replaced it
SingleTaskWritesState(k) ==
    /\ k \in DOMAIN app.singles
    /\ app.singles[k].pc = "returned"
    /\ app' = [app EXCEPT
          !.singles[k].pc = "done",
          !.refreshed = IF app.singles[k].result = "Ok(true)"
                        THEN @ \cup {app.singles[k].id} ELSE @,
          !.refresh_states[app.singles[k].id] =
              IF @ # None /\ @[1].owner = k
              THEN Some([@[1] EXCEPT !.is_refreshing = FALSE,
                                     !.error = IF app.singles[k].result = "Err"
                                               THEN Some("refresh_metadata") ELSE @])
              ELSE @]
    /\ UNCHANGED <<covers, last_refresh, events, hret, batch, progress_tx, spawned>>
    /\ UNCHANGED <<scanVars, cacheVars>>

\* a refresh_all_metadata that starts a task whatever the flag says
RefreshAllUnguarded ==
    /\ app.handler
    /\ Len(app.batches) < MaxRefreshAll
    /\ \E games \in AppGameLists :
          app' = [app EXCEPT
              !.is_batch_refreshing = TRUE,
              !.batches = Append(@, [DoneTask EXCEPT !.pc = "spawned", !.games = games,
                                                     !.metadata = metadata])]
    /\ UNCHANGED <<covers, last_refresh, events, hret, batch, progress_tx, spawned>>
    /\ UNCHANGED <<scanVars, cacheVars>>

\* refresh_all_metadata (app.rs 355-385)
RefreshAllMetadata ==
    /\ app.handler
    /\ ~app.is_batch_refreshing
    /\ Len(app.batches) < MaxRefreshAll
    /\ \E games \in AppGameLists :
          app' = [app EXCEPT
              !.is_batch_refreshing = TRUE,
              !.batches = Append(@, [DoneTask EXCEPT !.pc = "spawned", !.games = games,
                                                     !.metadata = metadata])]
    /\ UNCHANGED <<covers, last_refresh, events, hret, batch, progress_tx, spawned>>
    /\ UNCHANGED <<scanVars, cacheVars>>

\* update_library_metadata on the clone of the task, up to the loop
\* (handler.rs 253-267)
BatchTaskStarts(k) ==
    /\ k \in DOMAIN app.batches
    /\ app.batches[k].pc = "spawned"
    /\ app' = [app EXCEPT
          !.channel = @ \o Sent(send_status(Self(<<>>, 0, 0),
                                            <<"Progress", 0, Len(app.batches[k].games)>>)),
          !.batches[k].pc = "loop"]
    /\ UNCHANGED <<covers, last_refresh, events, hret, batch, progress_tx, spawned>>
    /\ UNCHANGED <<scanVars, cacheVars>>

\* one turn of the loop on the clone (handler.rs 269-324); no id of the list
\* is in the map of the clone before its turn
BatchTaskTurn(k) ==
    /\ k \in DOMAIN app.batches
    /\ app.batches[k].pc = "loop"
    /\ app.batches[k].i < Len(app.batches[k].games)
    /\ \E found \in SearchOutcomes(app.batches[k].games[app.batches[k].i + 1]),
          io, dl, io2 \in IoOutcomes :
          \E h \in {process_game([Self(<<>>, 0, 0) EXCEPT !.metadata = app.batches[k].metadata],
                                 app.batches[k].games[app.batches[k].i + 1],
                                 app.batches[k].i + 1, Len(app.batches[k].games),
                                 found, io, dl, io2)} :
             /\ disk' = h.disk
             /\ covers' = h.covers
             /\ app' = [app EXCEPT
                   !.channel = @ \o Sent(h),
                   !.batches[k].i = @ + 1,
                   !.batches[k].metadata = h.metadata,
                   !.batches[k].updated = IF h.result = "updated" THEN @ + 1 ELSE @,
                   !.batches[k].failed = IF h.result = "failed" THEN @ + 1 ELSE @,
                   !.batches[k].ok = IF h.result = "updated"
                                     THEN @ \cup {app.batches[k].games[app.batches[k].i + 1]}
                                     ELSE @]
    /\ UNCHANGED <<now, metadata, ret>>
    /\ UNCHANGED <<last_refresh, events, hret, batch, progress_tx, spawned>>
    /\ UNCHANGED scanVars

\* handler.rs 326-337 and app.rs 379-383: Completed is sent, the call returns
\* Ok(()) and the task ends
BatchTaskCompletes(k) ==
    /\ k \in DOMAIN app.batches
    /\ app.batches[k].pc = "loop"
    /\ app.batches[k].i = Len(app.batches[k].games)
    /\ app' = [app EXCEPT
          !.channel = @ \o Sent(send_status(Self(<<>>, 0, 0),
                                            <<"Completed", app.batches[k].updated,
                                              app.batches[k].failed,
                                              Len(app.batches[k].games)>>)),
          !.refreshed = @ \cup app.batches[k].ok,
          !.batches[k] = DoneTask]
    /\ UNCHANGED <<covers, last_refresh, events, hret, batch, progress_tx, spawned>>
    /\ UNCHANGED <<scanVars, cacheVars>>

\* check_metadata_status (app.rs 222-297) on one status
on_status(a, status) ==
    IF status[1] = "Started"
    THEN [a EXCEPT !.refresh_states[status[2]] =
              IF @ # None THEN Some([@[1] EXCEPT !.is_refreshing = TRUE, !.error = None])
              ELSE Some([owner |-> 0, is_refreshing |-> TRUE, error |-> None])]
    ELSE IF status[1] = "Success"
    THEN [a EXCEPT !.refresh_states[status[2]] =
              IF @ # None THEN Some([@[1] EXCEPT !.is_refreshing = FALSE, !.error = None])
              ELSE @]
    ELSE IF status[1] = "Failed"
    THEN [a EXCEPT !.refresh_states[status[2]] =
              IF @ # None THEN Some([@[1] EXCEPT !.is_refreshing = FALSE,
                                                 !.error = Some(status[3])])
              ELSE @]
    ELSE IF status[1] = "Progress"
    THEN [a EXCEPT !.batch_progress = Some(<<status[2], status[3]>>)]
    ELSE [a EXCEPT !.is_batch_refreshing = FALSE, !.batch_progress = None]

\* check_metadata_status, called by update on every frame: the statuses
\* are taken from the channel in the order they were sent
CheckMetadataStatus ==
    /\ app.channel # <<>>
    /\ app' = on_status([app EXCEPT !.channel = Tail(@)], Head(app.channel))
    /\ UNCHANGED <<covers, last_refresh, events, hret, batch, progress_tx, spawned>>
    /\ UNCHANGED <<scanVars, cacheVars>>

\* a handler that was not used yet, on a cache directory without cover files
HandlerIdle ==
    /\ covers = {}
    /\ last_refresh = {}
    /\ events = <<>>
    /\ hret = [op |-> "new", id |-> "", result |-> "Ok(())", searches |-> 0, downloads |-> 0,
               answer |-> "none", seq |-> 0, delivered |-> 0]
    /\ batch = NoBatch
    /\ progress_tx = "None"
    /\ spawned = NoTasks
    /\ app = GameLibraryAppNew

----------------------------------------------------------------------------
(* The build number of the first pass of GameInfo::parse_versions          *)
(* (game_info.rs 175-194), in u32 arithmetic                               *)

\* a u32 is held as two halves of 16 bits, with whether an operation on the
\* way to it overflowed
Half == 65536
U32(hi, lo, overflow) ==
    [hi |-> hi % Half, lo |-> lo % Half, overflow |-> overflow \/ hi >= Half]

\* a + b and a * 10 in u32, wrapping
u32_add(a, b) ==
    U32(a.hi + b.hi + (a.lo + b.lo) \div Half, a.lo + b.lo, a.overflow \/ b.overflow)
u32_mul10(a) == U32(a.hi * 10 + (a.lo * 10) \div Half, a.lo * 10, a.overflow)

\* num * 10u32.pow(k)
RECURSIVE u32_mul_pow10(_, _)
u32_mul_pow10(num, k) == IF k <= 0 THEN num ELSE u32_mul_pow10(u32_mul10(num), k - 1)

\* the value of part.parse::<u32>() when it is Ok
RECURSIVE u32_digits(_)
u32_digits(s) ==
    IF s = <<>> THEN U32(0, 0, FALSE)
    ELSE u32_add(u32_mul10(u32_digits(SubSeq(s, 1, Len(s) - 1))),
                 U32(0, DigitVal(s[Len(s)]), FALSE))

\* lines 179-186: build_num += num * 10u32.pow(6 - (i as u32 * 2)) for every
\* part that parses; the patterns capture two or three parts
RECURSIVE dotted_build(_, _, _)
dotted_build(parts, i, running_sum) ==
    IF parts = <<>> THEN running_sum
    ELSE dotted_build(Tail(parts), i + 1,
                      IF parse_u32(Head(parts)) # NoParse
                      THEN u32_add(running_sum,
                                   u32_mul_pow10(u32_digits(Head(parts)), 6 - i * 2))
                      ELSE running_sum)

\* lines 188-193: group 2, or else the version string, parsed, or else 0
simple_build(captures) ==
    IF captures.g2 # NoGroup /\ parse_u32(captures.g2) # NoParse THEN u32_digits(captures.g2)
    ELSE IF parse_u32(captures.g1) # NoParse THEN u32_digits(captures.g1)
    ELSE U32(0, 0, FALSE)

\* lines 175-194: the local `build`
first_pass_build(captures) ==
    IF contains(captures.g1, ".")
    THEN dotted_build(split_dot(captures.g1), 0, U32(0, 0, FALSE))
    ELSE simple_build(captures)

\* what the pass leaves: with overflow checks (a debug build) the first
\* overflow panics, without them (a release build) the value wraps
FirstPassOutcome(file_name, build, overflow_checks) ==
    [file_name |-> file_name, found_version |-> TRUE,
     build |-> IF build.overflow /\ overflow_checks THEN <<>> ELSE <<build.hi, build.lo>>,
     overflow |-> build.overflow,
     panicked |-> build.overflow /\ overflow_checks]

\* lines 167-211 for one installer
FirstPassOf(file_name, captures, overflow_checks) ==
    IF captures.matched
    THEN FirstPassOutcome(file_name, first_pass_build(captures), overflow_checks)
    ELSE [NoFirstPass EXCEPT !.file_name = file_name]

\* the numbers an installer name may carry: a small one, the greatest first
\* component 10^6 leaves in range and the least it does not, the least second
\* component 10^4 does not, and one no u32 holds
Components ==
    {<<"1">>, <<"4", "2", "9", "4">>, <<"4", "2", "9", "5">>,
     <<"4", "2", "9", "4", "9", "7">>,
     <<"9", "9", "9", "9", "9", "9", "9", "9", "9", "9", "9">>}

\* installers named setup_v<a>.<b>.exe, setup_v<a>.<b>.<c>.exe,
\* setup_build_<a>.exe, and one without a version
VersionedNames ==
    {Word.setup \o <<"_">> \o Word.v \o a \o <<".">> \o b \o Word.exe : a, b \in Components}
    \cup {Word.setup \o <<"_">> \o Word.v \o a \o <<".">> \o b \o <<".">> \o c \o Word.exe :
              a, b, c \in Components}
    \cup {Word.setup \o <<"_">> \o Word.build_ \o a \o Word.exe : a \in Components}
    \cup {Word.setup \o Word.exe}

\* the first pass of parse_versions meets an installer
FirstPass ==
    /\ \E file_name \in VersionedNames : \E overflow_checks \in BOOLEAN :
          first_pass' = FirstPassOf(file_name, first_captures(to_lowercase(file_name)),
                                    overflow_checks)
    /\ UNCHANGED <<using_local_fallback, local_path, local_dir, game, parsed>>
    /\ UNCHANGED <<cacheVars, handlerVars>>

----------------------------------------------------------------------------
(* Specifications                                                          *)

ScanNext ==
    \/ Connect
    \/ \E dir_name \in DirNames : GetGameInfo(dir_name)
    \/ ParseVersions

CacheNext ==
    \/ Tick
    \/ MetadataCacheNew
    \/ SaveMetadata
    \/ \E game_id \in GameIds : LoadMetadata(game_id)

Init == ScanInit /\ CacheInit /\ HandlerIdle

\* the scanner and the version resolver
SpecScan == Init /\ [][ScanNext]_vars

\* the metadata store, beside a scanner at rest
CacheOnlyInit == ScanIdle /\ CacheInit /\ HandlerIdle
SpecCache == CacheOnlyInit /\ [][CacheNext]_vars

\* the handler on its cache directory, beside a scanner at rest
HandlerNext ==
    \/ Wait
    \/ MetadataHandlerNew
    \/ Initialize
    \/ \E game_id \in GameIds : FetchAndCacheMetadata(game_id)
    \/ \E game_id \in GameIds : DownloadCover(game_id)
    \/ \E game_id \in GameIds : RefreshMetadata(game_id)

SpecHandler == CacheOnlyInit /\ [][HandlerNext]_vars

\* single calls of the handler for one game, with a progress channel that is
\* attached and whose receiving end goes away
ChannelIds == {"hades"}
ChannelNext ==
    \/ Wait
    \/ SetProgressChannel
    \/ DropReceiver
    \/ \E game_id \in ChannelIds : FetchAndCacheMetadata(game_id)
    \/ \E game_id \in ChannelIds : DownloadCover(game_id)
    \/ \E game_id \in ChannelIds : RefreshMetadata(game_id)

SpecChannel == CacheOnlyInit /\ [][ChannelNext]_vars

\* the two tasks side by side, every step of one between any two of the other
RaceNext ==
    \/ Wait
    \/ \E t \in Tasks : Spawn(t)
    \/ \E t \in Tasks : TaskSearches(t)
    \/ \E t \in Tasks : TaskCreatesFile(t)
    \/ \E t \in Tasks : TaskWritesFile(t)
    \/ \E t \in Tasks : TaskLooksForCover(t)
    \/ \E t \in Tasks : TaskDownloadsCover(t)

SpecRace == CacheOnlyInit /\ [][RaceNext]_vars

\* single-game refreshes of the application: the clicks of the user, the
\* frames of the UI and the steps of the tasks on the runtime, in any order
SingleNext ==
    \/ EnsureMetadataHandler
    \/ InitializeTask
    \/ \E game_id \in GameIds : FetchMetadata(game_id)
    \/ \E k \in 1..MaxClicks : SingleTaskRefreshes(k)
    \/ \E k \in 1..MaxClicks : SingleTaskWritesState(k)
    \/ CheckMetadataStatus

SpecSingle == CacheOnlyInit /\ [][SingleNext]_vars

\* batch refreshes of the application
RefreshAllNext ==
    \/ EnsureMetadataHandler
    \/ RefreshAllMetadata
    \/ \E k \in 1..MaxRefreshAll : BatchTaskStarts(k)
    \/ \E k \in 1..MaxRefreshAll : BatchTaskTurn(k)
    \/ \E k \in 1..MaxRefreshAll : BatchTaskCompletes(k)
    \/ CheckMetadataStatus

SpecRefreshAll == CacheOnlyInit /\ [][RefreshAllNext]_vars

\* the runtime runs the tasks it was handed (Runtime::new, app.rs 77), every
\* await of a task returns, and update asks for the next frame at the end of
\* every frame (ctx.request_repaint(), app.rs 758), so the channel is read
\* again and again
FairRefreshAll ==
    /\ SpecRefreshAll
    /\ WF_vars(\E k \in 1..MaxRefreshAll : BatchTaskStarts(k))
    /\ WF_vars(\E k \in 1..MaxRefreshAll : BatchTaskTurn(k))
    /\ WF_vars(\E k \in 1..MaxRefreshAll : BatchTaskCompletes(k))
    /\ WF_vars(CheckMetadataStatus)

AppNext == SingleNext \/ RefreshAllNext

\* batches of the handler over the library
BatchNext ==
    \/ Wait
    \/ UpdateLibraryMetadata
    \/ ProcessGame
    \/ CompleteBatch

SpecBatch == CacheOnlyInit /\ [][BatchNext]_vars

\* the loop of a batch that was started goes on: every await of the async fn
\* returns what the collaborator or the file system answered
FairBatch == SpecBatch /\ WF_vars(ProcessGame) /\ WF_vars(CompleteBatch)

\* the scanner on a local directory of at most one file, with or without an
\* info file
TitleInit ==
    /\ using_local_fallback = FALSE
    /\ local_path = "None"
    /\ local_dir \in [name : {LocalDirName},
                      files : UNION {[1..n -> FileNames] : n \in 0..1},
                      info : ScanInfoTexts]
    /\ game = EmptyGame
    /\ first_pass = NoFirstPass
    /\ parsed = NothingParsed
    /\ CacheInit /\ HandlerIdle
SpecTitle == TitleInit /\ [][ScanNext]_vars

\* parse_metadata on info texts of up to MaxLines lines
SpecInfo == CacheOnlyInit /\ [][ParseMetadata]_vars

\* the first pass of the resolver on single installer names
SpecFirstPass == CacheOnlyInit /\ [][FirstPass]_vars

Next ==
    ScanNext \/ CacheNext \/ HandlerNext \/ BatchNext \/ ChannelNext \/ RaceNext \/ FirstPass
    \/ ParseMetadata \/ AppNext
Spec == Init /\ [][Next]_vars

----------------------------------------------------------------------------
(* Properties of the version resolver and of the scanner                   *)

\* the files of the game and its versions, by index
Files == game.files
Versions == game.versions
\* how many times a file occurs in a list
Count(f, seq) == Cardinality({k \in DOMAIN seq : seq[k] = f})
\* the versions whose files list holds a file
VersionsHolding(f) == {v \in DOMAIN Versions : Count(f, Versions[v].files) > 0}
\* the versions whose requiredPatches list holds a file
VersionsRequiring(f) == {v \in DOMAIN Versions : Count(f, Versions[v].required_patches) > 0}
HasInstaller == \E i \in DOMAIN Files : Files[i].file_type = Installer

\* C1: after parse_versions and after get_game_info the versions are ordered by
\* build number descending: for all i < j, versions[i].build >= versions[j].build,
\* so the first version (latest_version) has the maximum build number.
VersionsSortedDescending ==
    /\ \A i, j \in DOMAIN Versions : i < j => Versions[i].build >= Versions[j].build
    /\ \A j \in DOMAIN Versions : Versions[1].build >= Versions[j].build

\* three versions of three different builds, in descending order
ThreeBuildsSorted ==
    /\ Len(Versions) = 3
    /\ Versions[1].build > Versions[2].build
    /\ Versions[2].build > Versions[3].build

\* C2: a game whose files hold at least one Installer-classified file has a
\* non-empty versions list after parse_versions and after get_game_info.
InstallerGivesVersion == HasInstaller => Versions # <<>>

\* a game whose only installer matches no version pattern, and its default version
InstallerUnderDefaultVersion ==
    /\ HasInstaller
    /\ Len(Versions) = 1
    /\ Versions[1].name = DefaultVersionName
    /\ \E i \in DOMAIN Files : Files[i].file_type = Patch

IsDottedName(name) == Len(name) > Len(S_Version) /\ SubSeq(name, 1, Len(S_Version)) = S_Version
DottedOf(name) == SubSeq(name, Len(S_Version) + 1, Len(name))

\* C4: the version made from an installer whose name carries a dotted version
\* a.b[.c] has build number a*10^6 + b*10^4 + c*10^2.
DottedVersionBuildEncoded ==
    \A v \in DOMAIN Versions :
        IsDottedName(Versions[v].name) =>
            Versions[v].build = build_num(split_dot(DottedOf(Versions[v].name)), 0)

\* C5: the versions list is strictly descending in build number: two versions of
\* distinct names never have the same build number.
VersionsStrictlyDescending ==
    \A i, j \in DOMAIN Versions : i < j => Versions[i].build > Versions[j].build

\* the numeric body of a build identifier: its leading digits, as a number
NumericBody(id) == DecimalValue(SubSeq(id, 1, DigitsEnd(id, 1) - 1))

\* C6: a patch whose name matches the from/to pattern is in the requiredPatches
\* of exactly the versions whose build number equals the numeric body of the
\* from-build identifier.
FromToPatchOnFromBuildVersions ==
    \A i \in DOMAIN Files :
        (Files[i].file_type = Patch /\ from_to_captures[Files[i].name].matched) =>
            \A v \in DOMAIN Versions :
                (v \in VersionsRequiring(Files[i]))
                    <=> (Versions[v].build = NumericBody(from_to_captures[Files[i].name].g1))

\* every version holds every patch of the game whose name does not match the
\* from/to pattern, exactly once
UnmatchedPatchesOnEveryVersion ==
    \A i \in DOMAIN Files :
        (Files[i].file_type = Patch /\ ~from_to_captures[Files[i].name].matched) =>
            \A v \in DOMAIN Versions : Count(Files[i], Versions[v].required_patches) = 1

ClassifyAnyExecutable(file_name) ==
    IF installer_regex(file_name) THEN Installer
    ELSE IF patch_regex(file_name) THEN Patch
    ELSE IF \E e \in {Word.exe, Word.msi, Word.pkg, Word.dmg} : ends_with(to_lowercase(file_name), e)
         THEN Installer
    ELSE Other
any_executable_types == [n \in AllNames |-> ClassifyAnyExecutable(n)]

\* C8: every file is classified in priority order: Installer on a match of the
\* installer pattern, else Patch on a match of the patch pattern, else Installer
\* for a name with an executable extension (exe, msi, pkg, dmg), else Other.
ClassifiedWithExecutableFallback ==
    \A i \in DOMAIN Files : Files[i].file_type = any_executable_types[Files[i].name]

----------------------------------------------------------------------------
(* Properties of the metadata store                                        *)

is_stale_in_seconds(game_id, days) ==
    IF game_id \in DOMAIN metadata
    THEN saturating_sub(now, metadata[game_id].last_updated) > days * SecondsPerDay
    ELSE TRUE

\* C10: is_stale(id, days) is true when the store holds no record for id, and
\* otherwise exactly when now - last_updated > days * 86400 seconds.
StaleExactlyPastTheSeconds ==
    \A id \in GameIds : \A days \in Days : is_stale(id, days) = is_stale_in_seconds(id, days)

\* C11: load_metadata(id) returns the in-memory record when the store holds
\* one; otherwise the record parsed from the metadata file when that file
\* exists; otherwise a fresh record with igdb_id, igdb_data and cover_path
\* absent and last_updated = now. The record returned is afterwards the one
\* held in memory for the id, so a second load returns it again, and no load
\* writes to disk.
LoadPrecedenceMemoryFileFresh ==
    [][(ret' # ret /\ ret'.op = "load_metadata")
       => /\ disk' = disk
          /\ IF ret'.id \in DOMAIN metadata
             THEN /\ ret'.ok /\ ret'.source = "memory"
                  /\ ret'.value = Some(metadata[ret'.id])
                  /\ metadata' = metadata
             ELSE IF disk[get_metadata_path(ret'.id)] # NoFile
             THEN /\ ret'.source = "disk"
                  /\ ret'.ok = IsOk(from_json(disk[get_metadata_path(ret'.id)]))
                  /\ ret'.ok => /\ ret'.value = Some(from_json(disk[get_metadata_path(ret'.id)])[2])
                                /\ ret'.id \in DOMAIN metadata'
                                /\ metadata'[ret'.id] = ret'.value[1]
             ELSE /\ ret'.ok /\ ret'.source = "new"
                  /\ ret'.value = Some([game_id |-> ret'.id, igdb_id |-> None,
                                        igdb_data |-> None, cover_path |-> None,
                                        last_updated |-> now])
                  /\ ret'.id \in DOMAIN metadata'
                  /\ metadata'[ret'.id] = ret'.value[1]]_vars

\* a fresh record, made after the clock advanced for a game without a file,
\* is held in memory while no file was written for it
FreshRecordHeldInMemoryOnly ==
    /\ ret.op = "load_metadata" /\ ret.source = "new" /\ now > 0
    /\ ret.id \in DOMAIN metadata
    /\ metadata[ret.id] = ret.value[1]
    /\ disk[get_metadata_path(ret.id)] = NoFile
    /\ \E other \in GameIds : disk[get_metadata_path(other)] # NoFile

----------------------------------------------------------------------------
(* Properties of the metadata handler                                      *)

\* C12: across the operations of a store, with a clock that never goes back,
\* the last_updated of the record held in memory for a game id never decreases.
LastUpdatedNeverDecreases ==
    [][\A id \in DOMAIN metadata \cap DOMAIN metadata' :
          metadata'[id].last_updated >= metadata[id].last_updated]_vars

\* the step is a call of the operation of the handler for the game
Calls(op) == hret'.seq # hret.seq /\ hret'.op = op

\* the store holds enrichment for the game that is not stale
FreshlyCached(game_id) ==
    /\ game_id \in DOMAIN metadata
    /\ metadata[game_id].igdb_data # None
    /\ ~is_stale(game_id, StaleDays)

\* C13: when the store holds enrichment for the id that is not stale (30
\* days), fetch_and_cache_metadata sends Started then Success and returns
\* Ok(true) without a call to the collaborator and without a write to the
\* store (memory, metadata file, cover file).
CacheHitShortCircuits ==
    [][(Calls("fetch_and_cache_metadata") /\ FreshlyCached(hret'.id))
       => /\ events' = << <<"Started", hret'.id>>, <<"Success", hret'.id>> >>
          /\ hret'.result = "Ok(true)"
          /\ hret'.searches = 0 /\ hret'.downloads = 0
          /\ metadata' = metadata /\ disk' = disk /\ covers' = covers]_vars

\* a fetch answered from the cache, for a record that was fetched again after
\* it had gone stale
CacheHitAfterRefetch ==
    /\ hret.op = "fetch_and_cache_metadata" /\ hret.result = "Ok(true)"
    /\ hret.searches = 0
    /\ now > 0 /\ metadata[hret.id].last_updated = now
    /\ events = << <<"Started", hret.id>>, <<"Success", hret.id>> >>

\* C14: two calls of fetch_and_cache_metadata in succession for the same id on
\* the same handler, the record of the id (if any) not being stale at the
\* second, make at most one call to the collaborator between them, whatever
\* the first returned.
TwoFetchesSearchAtMostOnce ==
    [][(/\ hret.op = "fetch_and_cache_metadata"
        /\ Calls("fetch_and_cache_metadata") /\ hret'.id = hret.id
        /\ hret.id \in DOMAIN metadata => ~is_stale(hret.id, StaleDays))
       => hret.searches + hret'.searches <= 1]_vars

\* the last status sent
LastStatus(statuses) == statuses[Len(statuses)]

\* C15: in fetch_and_cache_metadata a search without a match sends Failed with
\* a reason and returns Ok(false); an error of the collaborator sends Failed
\* and is returned to the caller; in both cases the record of the id is left
\* as it was, in memory and on disk.
FailedSearchLeavesRecord ==
    [][(Calls("fetch_and_cache_metadata") /\ hret'.answer \in {"no match", "error"})
       => /\ hret'.result = IF hret'.answer = "no match" THEN "Ok(false)" ELSE "Err"
          /\ Len(events') = 2
          /\ LastStatus(events')[1] = "Failed" /\ LastStatus(events')[2] = hret'.id
          /\ LastStatus(events')[3] # ""
          /\ metadata' = metadata /\ disk' = disk]_vars

\* a search that failed for a game whose stale record is still held and still
\* on disk
FailedSearchOverStaleRecord ==
    /\ hret.op = "fetch_and_cache_metadata" /\ hret.answer = "error" /\ hret.result = "Err"
    /\ hret.id \in DOMAIN metadata
    /\ metadata[hret.id].last_updated < now
    /\ disk[get_metadata_path(hret.id)] = to_json(metadata[hret.id])

\* C16: every call of refresh_metadata asks the collaborator for the best
\* match, whether or not the store holds a fresh record, and then fetches the
\* cover if the record holds enrichment with a cover that has no file yet.
RefreshAlwaysSearches ==
    [][Calls("refresh_metadata")
       => /\ hret'.searches = 1
          /\ (/\ hret'.result = "Ok(true)"
              /\ metadata'[hret'.id].igdb_data[1].cover # None
              /\ hret'.id \notin covers) => hret'.downloads = 1]_vars

\* the enrichment held for the game names no cover
NoCoverReference(game_id) ==
    /\ game_id \in DOMAIN metadata
    /\ metadata[game_id].igdb_data # None
    /\ metadata[game_id].igdb_data[1].cover = None

\* C17: download_cover returns Ok(true), makes no call to the collaborator and
\* changes nothing whenever the cover file of the id exists already or the
\* enrichment held for the id names no cover.
DownloadCoverNoOpSuccess ==
    [][(Calls("download_cover") /\ (hret'.id \in covers \/ NoCoverReference(hret'.id)))
       => /\ hret'.result = "Ok(true)"
          /\ hret'.downloads = 0
          /\ metadata' = metadata /\ disk' = disk /\ covers' = covers]_vars

\* the record of the game names the cover file, in memory and in its file,
\* and the cover file exists
CoverRecorded(game_id) ==
    /\ game_id \in DOMAIN metadata
    /\ metadata[game_id].cover_path = Some(CoverRelPath(game_id))
    /\ disk[get_metadata_path(game_id)] = to_json(metadata[game_id])
    /\ game_id \in covers

\* every record held that names a cover has its cover file
CoverPathHasCover ==
    \A id \in DOMAIN metadata : metadata[id].cover_path # None => id \in covers

\* C18 as stated: after download_cover got the bytes of the cover from the
\* collaborator, the record of the id has cover_path images/<id>_cover.jpg in
\* memory and in its file and the cover file exists; and every record that
\* names a cover has its cover file.
RetrievedCoverIsRecorded ==
    /\ [][(/\ Calls("download_cover")
           /\ hret'.downloads = 1 /\ hret'.result # "Ok(false)")
          => \A id \in GameIds : id = hret'.id => CoverRecorded(id)']_vars
    /\ []CoverPathHasCover

\* C18 amended: the record is in memory and in its file after a download_cover
\* that got the bytes and returned Ok(true); when the write of the record
\* fails the call returns the error, the record names the cover in memory
\* only, and the cover file exists all the same.
ReturnedCoverIsRecorded ==
    /\ [][(Calls("download_cover") /\ hret'.downloads = 1 /\ hret'.result # "Ok(false)")
          => /\ hret'.id \in covers'
             /\ metadata'[hret'.id].cover_path = Some(CoverRelPath(hret'.id))
             /\ hret'.result = "Ok(true)"
                => \A id \in GameIds : id = hret'.id => CoverRecorded(id)'
             /\ hret'.result = "Err" => disk'[get_metadata_path(hret'.id)] # to_json(metadata'[hret'.id])]_vars
    /\ []CoverPathHasCover

\* a cover downloaded and recorded for a record fetched earlier
CoverDownloadedAndRecorded ==
    /\ hret.op = "download_cover" /\ hret.result = "Ok(true)" /\ hret.downloads = 1
    /\ CoverRecorded(hret.id)
    /\ now > 0

----------------------------------------------------------------------------
(* Properties of a batch                                                   *)

\* a batch was started on the handler: its statuses are in events
InBatch == hret.op = "update_library_metadata"

IsProgress(status) == status[1] = "Progress"

\* the statuses sent so far before the k-th one that are Progress
ProgressBefore(k) == Cardinality({j \in 1..(k - 1) : IsProgress(events[j])})

\* C19: the statuses of one update_library_metadata over n games are
\* Progress{0,n}, then for each game in list order the statuses of that game
\* followed by Progress{i,n}, then Completed once, as the last status; the
\* completed values of the Progress statuses are 0, 1, ..., n; also for n = 0.
BatchTraceInOrder ==
    InBatch =>
        /\ events[1] = <<"Progress", 0, Len(batch.games)>>
        /\ SelectSeq(events, IsProgress)
              = [k \in 1..(batch.i + 1) |-> <<"Progress", k - 1, Len(batch.games)>>]
        /\ \A k \in DOMAIN events :
              /\ events[k][1] \in {"Started", "Success", "Failed", "Progress", "Completed"}
              /\ events[k][1] \in {"Started", "Success", "Failed"}
                 => /\ ProgressBefore(k) \in 1..Len(batch.games)
                    /\ events[k][2] = batch.games[ProgressBefore(k)]
                    /\ \E j \in (k + 1)..Len(events) : IsProgress(events[j])
              /\ events[k][1] = "Completed" => k = Len(events) /\ ~batch.running
        /\ batch.running => IsProgress(LastStatus(events))
        /\ ~batch.running => /\ LastStatus(events)[1] = "Completed"
                             /\ batch.i = Len(batch.games)

\* a finished batch over three games that sent Success for one and Failed for
\* another
ThreeGameTrace ==
    /\ InBatch /\ ~batch.running /\ Len(batch.games) = 3
    /\ \E j, k \in DOMAIN events : events[j][1] = "Success" /\ events[k][1] = "Failed"
    /\ Len(SelectSeq(events, IsProgress)) = 4

\* the statuses of the g-th game of the batch: those between Progress{g-1,n}
\* and Progress{g,n}
StatusesOfGame(g) ==
    SelectSeq([k \in DOMAIN events |->
                  IF ~IsProgress(events[k]) /\ events[k][1] # "Completed" /\ ProgressBefore(k) = g
                  THEN events[k] ELSE <<"Progress">>],
              LAMBDA status : ~IsProgress(status))

\* the batch called fetch_and_cache_metadata for its g-th game and got Ok(true):
\* the fetch sent its own Started and its own Success
FetchReturnedTrue(g) ==
    /\ Len(StatusesOfGame(g)) >= 3
    /\ StatusesOfGame(g)[2][1] = "Started"
    /\ StatusesOfGame(g)[3][1] = "Success"

\* the batch called fetch_and_cache_metadata for its g-th game and got
\* Ok(false) or an error: the fetch sent its own Started and no Success
FetchReturnedFalseOrError(g) ==
    /\ Len(StatusesOfGame(g)) >= 3
    /\ StatusesOfGame(g)[2][1] = "Started"
    /\ StatusesOfGame(g)[3][1] = "Failed"

\* the counters of the batch count the fetches by what they returned
BatchCounts ==
    InBatch =>
        /\ batch.updated = Cardinality({g \in 1..batch.i : FetchReturnedTrue(g)})
        /\ batch.failed = Cardinality({g \in 1..batch.i : FetchReturnedFalseOrError(g)})

\* update_library_metadata returned Ok(()), every game processed, Completed
\* being the last status and carrying the counters
BatchDone ==
    /\ InBatch /\ ~batch.running
    /\ hret.result = "Ok(())"
    /\ batch.i = Len(batch.games)
    /\ LastStatus(events) = <<"Completed", batch.updated, batch.failed, Len(batch.games)>>

\* C20: a batch runs to completion whatever the lookups of its games return:
\* every game is processed, update_library_metadata returns Ok(()) and
\* Completed is sent with failed = the games whose fetch returned false or an
\* error and successful = the games whose fetch returned true.
BatchCompletes ==
    /\ [](BatchCounts /\ (InBatch /\ ~batch.running => BatchDone))
    /\ (InBatch /\ batch.running) ~> BatchDone

\* three games that need a fetch, the lookup of the second throws and the first
\* and the third match: Completed{successful = 2, failed = 1, total = 3}
SecondOfThreeThrows ==
    /\ BatchDone
    /\ batch.games = <<"hades", "doom_2", "celeste">>
    /\ StatusesOfGame(2) = << <<"Started", "doom_2">>, <<"Started", "doom_2">>,
                              <<"Failed", "doom_2", "IGDB API error">>,
                              <<"Failed", "doom_2", "error">> >>
    /\ FetchReturnedTrue(1) /\ FetchReturnedTrue(3)
    /\ LastStatus(events) = <<"Completed", 2, 1, 3>>

\* the step is a turn of the loop of the batch
TurnOfBatch == batch'.i = batch.i + 1

\* C21: in a batch a game is skipped only when the enrichment held for it is
\* not stale: the turn then makes no call to the collaborator and writes
\* nothing to the store; every other game goes through
\* fetch_and_cache_metadata, which makes exactly one search.
BatchSkipsOnlyFresh ==
    [][TurnOfBatch
       => IF FreshlyCached(batch.games[batch'.i])
          THEN /\ hret'.searches = hret.searches /\ hret'.downloads = hret.downloads
               /\ metadata' = metadata /\ disk' = disk /\ covers' = covers
               /\ events' = events \o << <<"Started", batch.games[batch'.i]>>,
                                         <<"Success", batch.games[batch'.i]>>,
                                         <<"Progress", batch'.i, Len(batch.games)>> >>
          ELSE /\ hret'.searches = hret.searches + 1
               /\ Len(events') >= Len(events) + 2
               /\ events'[Len(events) + 1] = <<"Started", batch.games[batch'.i]>>
               /\ events'[Len(events) + 2] = <<"Started", batch.games[batch'.i]>>]_vars

\* a batch that fetched a game, skipped it at its second turn, and fetched it
\* again at its third after it had gone stale
FetchedSkippedRefetched ==
    /\ InBatch /\ batch.i = 3
    /\ batch.games = <<"hades", "hades", "hades">>
    /\ StatusesOfGame(2) = << <<"Started", "hades">>, <<"Success", "hades">> >>
    /\ hret.searches = 2
    /\ now > 0

\* the fetch of the turn sent its own Started and its own Success: it returned
\* Ok(true)
FetchSucceedsInTurn ==
    /\ TurnOfBatch
    /\ Len(events') >= Len(events) + 3
    /\ events'[Len(events) + 2] = <<"Started", batch.games[batch'.i]>>
    /\ events'[Len(events) + 3] = <<"Success", batch.games[batch'.i]>>

\* C22: in a batch a game whose fetch_and_cache_metadata returned Ok(true) is
\* counted in updated and reported with Success whatever the download of its
\* cover does (no cover, an error of the collaborator, an error of the write of
\* the record): failed is not incremented and the batch goes on to Progress.
CoverFailureNotCounted ==
    [][FetchSucceedsInTurn
       => /\ batch'.updated = batch.updated + 1
          /\ batch'.failed = batch.failed
          /\ batch'.running
          /\ Len(events') = Len(events) + 5
          /\ events'[Len(events) + 4] = <<"Success", batch.games[batch'.i]>>
          /\ events'[Len(events) + 5] = <<"Progress", batch'.i, Len(batch.games)>>]_vars

\* a finished batch of two games: the cover of the first was retrieved but the
\* write of its record failed, the first game is counted as updated and the
\* second game was processed
CoverWriteFailedBatchWentOn ==
    /\ BatchDone /\ Len(batch.games) = 2
    /\ batch.games[1] = "hades" /\ batch.games[2] = "doom_2"
    /\ FetchReturnedTrue(1)
    /\ hret.downloads = 1 /\ "hades" \in covers
    /\ metadata["hades"].cover_path = Some(CoverRelPath("hades"))
    /\ disk[get_metadata_path("hades")] # to_json(metadata["hades"])
    /\ batch.updated >= 1
    /\ Len(StatusesOfGame(2)) >= 2

\* C30: load_metadata(id) for an id that is not held in memory and whose file
\* exists but cannot be parsed returns the error and no record, registers
\* nothing in memory and leaves the file as it is, so is_stale(id, d) is true
\* afterwards for every d.
UnparseableFileIsAnError ==
    [][(/\ ret' # ret /\ ret'.op = "load_metadata"
        /\ ret'.id \notin DOMAIN metadata
        /\ disk[get_metadata_path(ret'.id)] # NoFile
        /\ ~IsOk(from_json(disk[get_metadata_path(ret'.id)])))
       => /\ ~ret'.ok /\ ret'.value = None
          /\ metadata' = metadata /\ disk' = disk
          /\ \A id \in GameIds : id = ret'.id => \A days \in Days : is_stale(id, days)']_vars

\* a load has just failed on a file that was cut short: the id is not in
\* memory and the file is still there
LoadFailedOnGarbage ==
    /\ ret.op = "load_metadata" /\ ~ret.ok
    /\ ret.id \in GameIds /\ ret.id \notin DOMAIN metadata
    /\ disk[get_metadata_path(ret.id)] = Garbage

\* C26: in every game record a scan produces, the files list of each version
\* holds Installer-classified files only and each requiredPatches list holds
\* Patch-classified files only, the default version the scanner adds for a
\* directory without installers included.
VersionListsHoldTheirTypeOnly ==
    \A v \in DOMAIN Versions :
        /\ \A k \in DOMAIN Versions[v].files : Versions[v].files[k].file_type = Installer
        /\ \A k \in DOMAIN Versions[v].required_patches :
              Versions[v].required_patches[k].file_type = Patch

\* the position in the files of the game of the first installer of a version
FirstInstallerOf(v) ==
    CHOOSE k \in DOMAIN Files : Files[k] = Versions[v].files[1]

\* C27: version resolution is deterministic: parse_versions run again on the
\* same files gives the same versions sequence, and versions of equal build
\* are in insertion order, the order in which their first installer is met
\* in the files of the game.
ResolutionIsDeterministic ==
    /\ [][(game'.files = game.files /\ HasInstaller) => game'.versions = game.versions]_vars
    /\ [](HasInstaller =>
            \A i, j \in DOMAIN Versions :
                (i < j /\ Versions[i].build = Versions[j].build)
                => FirstInstallerOf(i) < FirstInstallerOf(j))

\* C25: version extraction never fails the scan: for every installer name,
\* large components of a dotted version included, the first pass completes
\* with component * 10^(6-2i) and the running sum in the range of u32.
FirstPassStaysInRange ==
    first_pass.found_version => ~first_pass.panicked /\ ~first_pass.overflow

\* the info file of the directory that was scanned sets the title
InfoSetsTitle ==
    /\ using_local_fallback /\ local_path = "Some" /\ local_dir.info # None
    /\ parse_metadata(DefaultInfo, local_dir.info[1]).title # <<>>

\* C28: a scanned game record whose info text sets no title has id = the
\* directory name and title = the directory name with spaces for underscores
\* and every word starting in upper case.
TitleIsHumanizedDirName ==
    (game.id # <<>> /\ ~InfoSetsTitle)
    => /\ game.id \in DirNames
       /\ game.title = title_case(replace(game.id, "_", " "))

----------------------------------------------------------------------------
(* Properties of parse_metadata                                            *)

\* the i-th line of the text that was parsed, trimmed
InfoLine(i) == trim(parsed.content[i])
\* blank lines and comments
IsSkipped(line) == line = <<>> \/ Head(line) = "#"
IsKeyLine(i) == ~IsSkipped(InfoLine(i)) /\ contains(InfoLine(i), ":")
\* a key line with an empty value
StartsBlock(i) == IsKeyLine(i) /\ ValueOf(InfoLine(i)) = <<>>
\* the index of the key line that ends the block started at line i, or the
\* index after the last line
BlockEnd(i) ==
    Min({e \in (i + 1)..Len(parsed.content) : IsKeyLine(e)} \cup {Len(parsed.content) + 1})
\* the continuation lines of the block started at line i
Continuations(i) ==
    SelectSeq([j \in 1..(BlockEnd(i) - 1 - i) |-> InfoLine(i + j)],
              LAMBDA line : ~IsSkipped(line))
\* lines joined by newlines
RECURSIVE JoinLines(_)
JoinLines(lines) ==
    IF Len(lines) <= 1 THEN (IF lines = <<>> THEN <<>> ELSE lines[1])
    ELSE lines[1] \o <<"\n">> \o JoinLines(Tail(lines))
\* a key line for the field occurs at line e or after
SetFrom(field, e) ==
    \E j \in e..Len(parsed.content) : IsKeyLine(j) /\ KeyOf(InfoLine(j)) \in MetadataKeys[field]
\* line i starts a block of at least one continuation line for the field, and
\* no key line for the field follows the block
LastBlockOf(field, i) ==
    /\ StartsBlock(i) /\ KeyOf(InfoLine(i)) \in MetadataKeys[field]
    /\ Continuations(i) # <<>>
    /\ ~SetFrom(field, BlockEnd(i))
\* the field holds the text
HoldsText(field, text) ==
    parsed.self[field] = IF field = "title" THEN text ELSE Some(text)
\* the fields no key line names are as they were
UnnamedFieldsUnchanged ==
    \A field \in DOMAIN MetadataKeys :
        ~SetFrom(field, 1) => parsed.self[field] = DefaultInfo[field]

\* C29 as stated: a recognized key line with an empty value followed by at
\* least one continuation line sets its field to the continuation lines joined
\* by newlines, the igdb id to the number they spell, whether the block ends
\* at the next key line or at the end of the text; blank lines and comments
\* are skipped, and a key line for an unknown key changes no field.
BlockSetsEveryField ==
    /\ \A i \in DOMAIN parsed.content : \A field \in DOMAIN MetadataKeys :
          LastBlockOf(field, i)
          => IF field = "igdb_id"
             THEN /\ parse_u32(JoinLines(Continuations(i))) # NoParse
                  /\ parsed.self.igdb_id = Some(parse_u32(JoinLines(Continuations(i))))
             ELSE HoldsText(field, JoinLines(Continuations(i)))
    /\ UnnamedFieldsUnchanged

\* C29 amended: the block sets a text field (title, developer, publisher,
\* release date, description) to its continuation lines, trimmed and joined
\* by newlines; the igdb id becomes the u32 the joined text spells and absent
\* when it spells none; fields that no key line names are unchanged.
BlockSetsTextField ==
    /\ \A i \in DOMAIN parsed.content : \A field \in DOMAIN MetadataKeys :
          LastBlockOf(field, i)
          => IF field = "igdb_id"
             THEN parsed.self.igdb_id =
                      IF parse_u32(JoinLines(Continuations(i))) = NoParse THEN None
                      ELSE Some(parse_u32(JoinLines(Continuations(i))))
             ELSE HoldsText(field, JoinLines(Continuations(i)))
    /\ UnnamedFieldsUnchanged

\* a description of two lines, the second one trimmed, at the end of the text
TwoLineDescriptionAtEnd ==
    /\ parsed.content = <<InfoLines.description_, InfoLines.one, InfoLines.two>>
    /\ parsed.self.description = Some(<<"o", "n", "e", "\n", "t", "w", "o">>)

----------------------------------------------------------------------------
(* Properties of the progress channel                                      *)

\* the handler as a call finds it, with the progress channel in a given state
SelfWithChannel(tx) == [Self(<<>>, 0, 0) EXCEPT !.progress_tx = tx]
\* what a call leaves apart from the channel: the result, the calls made to
\* the collaborator, the records, the files, the statuses handed to send_status
ApartFromChannel(h) == [h EXCEPT !.progress_tx = "None", !.delivered = 0]

\* whatever the state of the channel, each operation leaves what it leaves
\* without a channel
SameWithAnyChannel(tx) ==
    /\ \A game_id \in GameIds : \A found \in SearchOutcomes(game_id) : \A io \in IoOutcomes :
          /\ ApartFromChannel(fetch_and_cache_metadata(SelfWithChannel(tx), game_id, found, io))
                = fetch_and_cache_metadata(SelfWithChannel("None"), game_id, found, io)
          /\ \A dl, io2 \in IoOutcomes :
                ApartFromChannel(refresh_metadata(SelfWithChannel(tx), game_id, found, io, dl, io2))
                   = refresh_metadata(SelfWithChannel("None"), game_id, found, io, dl, io2)
    /\ \A game_id \in GameIds : \A dl, io \in IoOutcomes :
          ApartFromChannel(download_cover(SelfWithChannel(tx), game_id, dl, io))
             = download_cover(SelfWithChannel("None"), game_id, dl, io)
    /\ \A game_id \in LibraryIds : \A found \in SearchOutcomes(game_id) :
          \A io, dl, io2 \in IoOutcomes :
             ApartFromChannel(process_game(SelfWithChannel(tx), game_id, 1, 1, found, io, dl, io2))
                = process_game(SelfWithChannel("None"), game_id, 1, 1, found, io, dl, io2)

\* C23: the progress channel has no influence on the handler: the result of
\* fetch_and_cache_metadata, refresh_metadata, download_cover and of a turn of
\* update_library_metadata, the calls made to the collaborator and the store
\* are the same without a channel, with a live channel and with a channel whose
\* receiving end was dropped; statuses reach the receiving end only when it is
\* alive and are discarded otherwise.
ChannelHasNoInfluence ==
    /\ [](\A tx \in {"live", "dropped"} : SameWithAnyChannel(tx))
    /\ [][hret'.seq # hret.seq
          => hret'.delivered = IF progress_tx = "live" THEN Len(events') ELSE 0]_vars

\* a refresh that searched, cached and returned Ok(true) while the receiving
\* end of the channel was gone: four statuses handed over, none delivered
RefreshedWithReceiverGone ==
    /\ progress_tx = "dropped"
    /\ hret.op = "refresh_metadata" /\ hret.result = "Ok(true)" /\ hret.searches = 1
    /\ Len(events) >= 2 /\ hret.delivered = 0

----------------------------------------------------------------------------
(* Properties of concurrent refreshes                                      *)

\* both tasks have ended and at least one of them saved a record
BothTasksDone ==
    /\ \A t \in Tasks : spawned[t].pc = "done"
    /\ spawned.last_saved # None

\* C24: two refreshes of one id at once, a single-game refresh and a batch,
\* each on its clone of the handler, are resolved by last writer wins: when
\* both have ended, neither with an error of a save, the metadata file of the
\* id is the whole record of the save_metadata that ran last.
LastWriterWins ==
    BothTasksDone
    => /\ disk[get_metadata_path(RaceId)] = to_json(spawned.last_saved[1])
       /\ \A t \in Tasks : spawned[t].result \in {"Ok(true)", "Ok(false)", "Err"}

----------------------------------------------------------------------------
(* Properties of load_all                                                  *)

\* the metadata file of the id exists and parses
Parseable(id) ==
    /\ disk[get_metadata_path(id)] # NoFile
    /\ IsOk(from_json(disk[get_metadata_path(id)]))

\* the metadata file of the id exists and does not parse
Unparseable(id) ==
    /\ disk[get_metadata_path(id)] # NoFile
    /\ ~IsOk(from_json(disk[get_metadata_path(id)]))

\* C31: load_all on a metadata directory that can be read, whatever mix of
\* files that parse and files that do not it holds, returns Ok; afterwards the
\* map holds, under the file stem, the record of every file that parses, and
\* for every other id what it held before; no file is changed.
LoadAllIsPartialSuccess ==
    \A h \in {load_all(Self(<<>>, 0, 0), TRUE)} :
        /\ h.result = "Ok(())"
        /\ h.disk = disk
        /\ \A id \in LibraryIds :
              IF Parseable(id)
              THEN /\ id \in DOMAIN h.metadata
                   /\ h.metadata[id] = from_json(disk[get_metadata_path(id)])[2]
              ELSE /\ (id \in DOMAIN h.metadata) = (id \in DOMAIN metadata)
                   /\ id \in DOMAIN metadata => h.metadata[id] = metadata[id]

\* initialize has just returned Ok on a new handler over a directory with a
\* file that parses and one that does not: the first is in the map, the
\* second is not
LoadedAroundGarbage ==
    /\ hret.op = "initialize" /\ hret.result = "Ok(())"
    /\ \E good, bad \in GameIds :
          /\ Parseable(good) /\ good \in DOMAIN metadata
          /\ metadata[good] = from_json(disk[get_metadata_path(good)])[2]
          /\ Unparseable(bad) /\ bad \notin DOMAIN metadata

----------------------------------------------------------------------------
(* Properties of the statuses of single calls                              *)

\* C32: every call of fetch_and_cache_metadata hands over exactly two
\* statuses before it returns: Started for the game first, then one of
\* Success and Failed for the game, whether the cache answered, the
\* collaborator found the game, found none or failed, or the save of the
\* match failed.
FetchEmitsStartedThenTerminal ==
    hret.op = "fetch_and_cache_metadata"
    => /\ Len(events) = 2
       /\ events[1] = <<"Started", hret.id>>
       /\ events[2][1] \in {"Success", "Failed"}
       /\ events[2][2] = hret.id

----------------------------------------------------------------------------
(* Properties of the application                                           *)

\* C33: the handler the application keeps for its views holds what its
\* tasks cached: after a single-game or batch refresh task that fetched an id
\* with success has ended, has_igdb_metadata(id) is true on that handler, and
\* after the task of initialize() has ended the records it loaded are in the
\* map of that handler.
AppHandlerSeesTaskResults ==
    /\ \A id \in app.refreshed : has_igdb_metadata(Self(<<>>, 0, 0), id)
    /\ \A id \in app.loaded : id \in DOMAIN metadata

\* C34: a refresh of an id the user asks for after a refresh of that id has
\* ended with success, the clock still within the threshold of staleness,
\* does not search the collaborator.
SecondRefreshDoesNotSearch ==
    \A k \in DOMAIN app.singles :
        app.singles[k].after_ok /\ app.singles[k].pc \in {"returned", "done"}
        => app.singles[k].searches = 0

\* C37: when the task of a single-game refresh has ended and no status is
\* left in the channel, the RefreshState of the game in the map of the
\* application has is_refreshing = false.
RefreshStateSettles ==
    \A k \in DOMAIN app.singles :
        (/\ \A j \in DOMAIN app.singles : app.singles[j].pc = "done"
         /\ app.channel = <<>>)
        => /\ app.refresh_states[app.singles[k].id] # None
           /\ ~app.refresh_states[app.singles[k].id][1].is_refreshing

\* the batch tasks that have not ended
LiveBatchTasks == {k \in DOMAIN app.batches : app.batches[k].pc # "done"}

\* C38: at most one batch task runs at a time, a RefreshAll while
\* is_batch_refreshing is true starting none; and every RefreshAll that set
\* is_batch_refreshing is followed by is_batch_refreshing = false with
\* batch_progress = None, whatever the list of games, the empty one included,
\* and whatever fails for single games.
BatchFlagIsReset ==
    /\ [](Cardinality(LiveBatchTasks) <= 1)
    /\ app.is_batch_refreshing
          ~> (~app.is_batch_refreshing /\ app.batch_progress = None)

\* a batch over two games, one of them counted as failed, has ended, its
\* Completed was taken from the channel and the flags are reset
BatchEndedAndFlagsReset ==
    /\ Len(app.batches) = 1 /\ app.batches[1].pc = "done"
    /\ app.channel = <<>>
    /\ ~app.is_batch_refreshing /\ app.batch_progress = None
    /\ \E id \in GameIds : /\ app.refresh_states[id] # None
                             /\ app.refresh_states[id][1].error # None

----------------------------------------------------------------------------
(* Properties of a failed save                                             *)

\* C36: a save_metadata whose write fails returns the error and leaves the
\* in-memory map as it was before the call, so that after every save,
\* successful or not, the in-memory record of the id, if there is one, is the
\* record its file holds.
FailedSaveLeavesMemory ==
    [][(ret' # ret /\ ret'.op = "save_metadata")
       => /\ ~ret'.ok => metadata' = metadata
          /\ \A id \in GameIds :
                (id = ret'.id /\ id \in DOMAIN metadata')
                => disk'[get_metadata_path(id)] = to_json(metadata'[id])]_vars

----------------------------------------------------------------------------
(* Properties of the cover path across refreshes                           *)

\* the metadata file of the id holds a record with a cover path
PersistedCoverPath(id) ==
    /\ Parseable(id)
    /\ from_json(disk[get_metadata_path(id)])[2].cover_path # None

\* C35: a fetch_and_cache_metadata or refresh_metadata that returns Ok(true)
\* for an id whose metadata file held a cover path, on the handler that
\* recorded it or on a new handler over the same cache directory, leaves a
\* metadata file that holds a cover path.
CoverPathSurvivesRefresh ==
    [][\A id \in GameIds :
          (/\ hret'.seq # hret.seq /\ hret'.id = id
           /\ hret'.op \in {"fetch_and_cache_metadata", "refresh_metadata"}
           /\ hret'.result = "Ok(true)"
           /\ PersistedCoverPath(id))
          => PersistedCoverPath(id)']_vars

----------------------------------------------------------------------------
(* Properties of the statuses and counters of a batch                      *)

\* the statuses of the g-th game that are of the kind
OfKind(g, kind) == {k \in DOMAIN StatusesOfGame(g) : StatusesOfGame(g)[k][1] = kind}

\* C39: in a batch the statuses between Progress{g-1,n} and Progress{g,n} all
\* carry the id of the g-th game of the list, the first of them is Started,
\* and they do not hold both a Success and a Failed.
GameStatusesAreItsOwn ==
    InBatch =>
        \A g \in 1..batch.i :
            /\ StatusesOfGame(g) # <<>>
            /\ StatusesOfGame(g)[1] = <<"Started", batch.games[g]>>
            /\ \A k \in DOMAIN StatusesOfGame(g) :
                  /\ StatusesOfGame(g)[k][1] \in {"Started", "Success", "Failed"}
                  /\ StatusesOfGame(g)[k][2] = batch.games[g]
            /\ OfKind(g, "Success") = {} \/ OfKind(g, "Failed") = {}

\* a finished batch over three different games: the first fetched, the save
\* of the match of the second failed, the third was not found
ThreeDifferentGames ==
    /\ BatchDone
    /\ batch.games = <<"hades", "doom_2", "celeste">>
    /\ Len(StatusesOfGame(1)) = 4 /\ OfKind(1, "Success") = {3, 4}
    /\ Len(StatusesOfGame(2)) = 3 /\ OfKind(2, "Failed") = {3}
    /\ Len(StatusesOfGame(3)) = 4 /\ OfKind(3, "Failed") = {3, 4}

\* the games of the batch so far that were up to date: Started and Success
\* and no call of fetch_and_cache_metadata
AlreadyCurrent ==
    {g \in 1..batch.i :
        StatusesOfGame(g) = << <<"Started", batch.games[g]>>, <<"Success", batch.games[g]>> >>}

\* C40: the Completed of a batch has successful + failed <= total, and
\* total - successful - failed is the number of games that were up to date,
\* for which no fetch was made (every other game made one search) and
\* which got a Success.
CompletedCountsFetchesOnly ==
    (InBatch /\ ~batch.running)
    => /\ LastStatus(events)[1] = "Completed"
       /\ LastStatus(events)[2] + LastStatus(events)[3] <= LastStatus(events)[4]
       /\ LastStatus(events)[4] = Len(batch.games)
       /\ LastStatus(events)[4] - LastStatus(events)[2] - LastStatus(events)[3]
             = Cardinality(AlreadyCurrent)
       /\ LastStatus(events)[2] + LastStatus(events)[3] = hret.searches

\* a finished batch of three games of which the second was up to date:
\* Completed{successful = 1, failed = 1, total = 3}
OneOfThreeWasCurrent ==
    /\ BatchDone
    /\ batch.games = <<"hades", "hades", "doom_2">>
    /\ AlreadyCurrent = {2}
    /\ LastStatus(events) = <<"Completed", 1, 1, 3>>

====
